---- MODULE Spec2Model ----
(***************************************************************************)
(* Tail queue, dispatch gate and dispatcher of the TUI prompt component    *)
(* (Prompt, src/unnamed/part_004).                                         *)
(*                                                                         *)
(* The component is a Solid.js component: signals and store fields are the *)
(* state, event handlers are the operations, and every createEffect is a   *)
(* step of its own.  Solid runs the effects a write has invalidated        *)
(* synchronously, before the next event is handled; the handlers are       *)
(* therefore enabled only in states where no effect has work to do         *)
(* (Quiescent), and an effect step is the only step possible otherwise.    *)
(*                                                                         *)
(* A prompt is rendered either by the home route, without a session, or by *)
(* the session route, with one: the instance without a session never gets  *)
(* one (submit creates a session and navigates to the session route, which *)
(* renders its own prompt), and the session route switches its prompt only *)
(* between sessions.                                                       *)
(***************************************************************************)
EXTENDS Integers, Sequences, FiniteSets, TLC

\* ------------------------------------------------------------------ bounds
\* total number of queued prompts ever created (ids 1..MaxMsgs)
MaxMsgs == 2
\* direct sends waiting for session.create to resolve
MaxCreating == 1

\* ------------------------------------------------------------ input domains
NoSession == "none"
Sessions == {"s1", "s2"}
NoModel == "nomodel"
Models == {"gpt"}
Agents == {"build"}
\* local.model.variant.current()
Variant == "default"
StatusTypes == {"idle", "busy"}
GateStates == {"open", "paused", "wait_busy", "wait_idle"}
\* texts are sequences of characters; the drafts a user types
Drafts == { <<>>, <<"a">>, <<"b">> }
NoID == 0
NoCursor == -1
NoToast == "none"
\* proc.exitCode === null
NoCode == -1
\* proc.signalCode === null
NoSignal == "none"
\* the outcome of Process.run while its promise is pending
NoResult == [kind |-> "pending", code |-> NoCode, stdout |-> <<>>, stderr |-> <<>>]
\* no child process has been spawned
NoProc ==
  [state |-> "none", nothrow |-> FALSE, kill |-> <<>>, timeout |-> <<>>,
   abort |-> "none", listener |-> FALSE, closed |-> FALSE, timer |-> "none",
   exitCode |-> NoCode, signalCode |-> NoSignal, signals |-> <<>>,
   stdout |-> <<>>, stderr |-> <<>>, exited |-> <<>>, result |-> NoResult]

VARIABLES
  sessionID,            \* props.sessionID, NoSession when undefined
  status,               \* memo status: sync.data.session_status[props.sessionID].type
  promptInput,          \* store.prompt.input
  mode,                 \* store.mode
  interrupt,            \* store.interrupt
  timers,               \* whether a setTimeout(interrupt := 0) callback is pending
  queuedPrompts,        \* signal queuedPrompts
  sendingQueuedPrompt,  \* signal sendingQueuedPrompt
  queuedEditID,         \* signal queuedEditID, NoID when undefined
  queuedCursor,         \* signal queuedCursor, NoCursor when undefined
  queueGate,            \* signal queueGate
  nextID,               \* Identifier.ascending counter for queued prompts
  pending,              \* queued sendPrompt calls (id, session) whose promise has not settled
  creating,             \* submits suspended at await session.create
  call,                 \* the outbound call the last step issued, NoCall if none
  toast,                \* the toast the last step showed, NoToast if none
  dispatched,           \* history: (id, session) of the queued sendPrompt calls, in order
  origin,               \* history: per id, the session that was active when it was queued
  loadedID,             \* history: id of the queued prompt the draft was loaded from
  parts,                \* store.prompt.parts
  extmarks,             \* input.extmarks: the live extmarks, in creation order
  extmarkToPartIndex,   \* store.extmarkToPartIndex
  nextExtmark,          \* the id the next input.extmarks.create returns
  proc                  \* the child of Process.spawn with its closure and its run

vars == << sessionID, status, promptInput, mode, interrupt, timers,
           queuedPrompts, sendingQueuedPrompt, queuedEditID, queuedCursor,
           queueGate, nextID, pending, creating, call, toast, dispatched,
           origin, loadedID, parts, extmarks, extmarkToPartIndex, nextExtmark,
           proc >>

\* the part of the state that belongs to the draft's parts
composition == << parts, extmarks, extmarkToPartIndex, nextExtmark >>

\* ------------------------------------------------------------ text helpers
IsSpace(c) == c = " "

RECURSIVE trimStart(_)
trimStart(s) == IF s # <<>> /\ IsSpace(Head(s)) THEN trimStart(Tail(s)) ELSE s

RECURSIVE trimEnd(_)
trimEnd(s) ==
  IF s # <<>> /\ IsSpace(s[Len(s)]) THEN trimEnd(SubSeq(s, 1, Len(s) - 1)) ELSE s

trim(s) == trimEnd(trimStart(s))

startsWith(s, p) == Len(s) >= Len(p) /\ SubSeq(s, 1, Len(p)) = p

\* ------------------------------------------------------------ sequence helpers
RECURSIVE filter(_, _)
filter(list, sid) ==
  IF list = <<>> THEN <<>>
  ELSE IF Head(list).sessionID = sid
       THEN <<Head(list)>> \o filter(Tail(list), sid)
       ELSE filter(Tail(list), sid)

reverse(list) == [i \in 1..Len(list) |-> list[Len(list) + 1 - i]]

\* list.findIndex((item) => item.id === id), 0 when there is none
findIndex(list, id) ==
  IF \E i \in 1..Len(list) : list[i].id = id
  THEN CHOOSE i \in 1..Len(list) :
         list[i].id = id /\ \A j \in 1..(i - 1) : list[j].id # id
  ELSE 0

removeAt(list, i) == SubSeq(list, 1, i - 1) \o SubSeq(list, i + 1, Len(list))

\* ------------------------------------------------------------ composition
\* a part of store.prompt.parts: type is text, file or agent; text is the full
\* text of a collapsed paste; source is the anchor (start, end, value) the part
\* was inserted at, NoSource when it has none
NoSource == [start |-> 0, end |-> 0, value |-> <<>>]

\* String.prototype.slice(a, b) for 0 <= a, 0 <= b
slice(s, a, b) ==
  LET lo == IF a > Len(s) THEN Len(s) ELSE a
      hi == IF b > Len(s) THEN Len(s) ELSE b
  IN IF lo >= hi THEN <<>> ELSE SubSeq(s, lo + 1, hi)

\* Map.get on extmarkToPartIndex: the part index as a sequence of zero or one
mapGet(map, id) == IF id \in DOMAIN map THEN <<map[id]>> ELSE <<>>

\* Map.set
mapSet(map, id, partIndex) ==
  [k \in DOMAIN map \cup {id} |-> IF k = id THEN partIndex ELSE map[k]]

\* new Map()
NoMap == <<>>

\* the text a part is shown as in the buffer, <<>> when it has no anchor
virtualTextOf(part) ==
  IF part.type \in {"file", "agent", "text"} /\ part.source # NoSource
  THEN part.source.value ELSE <<>>

\* restoreExtmarksFromParts: parts.forEach from partIndex on, creating an extmark
\* (ids from `next`) for every part that has a virtual text
RECURSIVE restoreFrom(_, _, _, _, _)
restoreFrom(ps, partIndex, marks, map, next) ==
  IF partIndex >= Len(ps)
  THEN [extmarks |-> marks, extmarkToPartIndex |-> map, nextExtmark |-> next]
  ELSE LET part == ps[partIndex + 1]
       IN IF virtualTextOf(part) # <<>>
          THEN restoreFrom(ps, partIndex + 1,
                           Append(marks, [id |-> next, start |-> part.source.start,
                                          end |-> part.source.end]),
                           mapSet(map, next, partIndex), next + 1)
          ELSE restoreFrom(ps, partIndex + 1, marks, map, next)

\* restoreExtmarksFromParts: the extmarks are cleared and recreated from parts
restoreExtmarksFromParts(ps) == restoreFrom(ps, 0, <<>>, NoMap, 1)

\* the part with its anchor moved to the extent of its extmark
partAt(part, extmark) ==
  IF part.type \in {"agent", "file", "text"} /\ part.source # NoSource
  THEN [part EXCEPT !.source.start = extmark.start, !.source.end = extmark.end]
  ELSE part

\* syncExtmarksWithPromptParts: the loop over allExtmarks
RECURSIVE syncFrom(_, _, _, _, _)
syncFrom(allExtmarks, map, ps, newMap, newParts) ==
  IF allExtmarks = <<>>
  THEN [parts |-> newParts, extmarkToPartIndex |-> newMap]
  ELSE LET extmark == Head(allExtmarks)
           partIndex == mapGet(map, extmark.id)
       IN IF partIndex # <<>> /\ partIndex[1] < Len(ps)
          THEN syncFrom(Tail(allExtmarks), map, ps,
                        mapSet(newMap, extmark.id, Len(newParts)),
                        Append(newParts, partAt(ps[partIndex[1] + 1], extmark)))
          ELSE syncFrom(Tail(allExtmarks), map, ps, newMap, newParts)

\* syncExtmarksWithPromptParts that keeps the old part indices in the new map
syncKeepsIndices(allExtmarks, map, ps) ==
  LET r == syncFrom(allExtmarks, map, ps, NoMap, <<>>)
  IN [r EXCEPT !.extmarkToPartIndex =
        [id \in DOMAIN r.extmarkToPartIndex |-> map[id]]]

\* syncExtmarksWithPromptParts that moves the anchors and prunes the map but
\* does not rebuild the list of parts
syncKeepsOrphans(allExtmarks, map, ps) ==
  LET r == syncFrom(allExtmarks, map, ps, NoMap, <<>>)
  IN [parts |-> ps,
      extmarkToPartIndex |-> [id \in DOMAIN r.extmarkToPartIndex |-> map[id]]]

\* syncExtmarksWithPromptParts on the extmarks the input holds
syncExtmarksWithPromptParts(allExtmarks, map, ps) ==
  syncFrom(allExtmarks, map, ps, NoMap, <<>>)

\* Array.prototype.sort((a, b) => b.start - a.start): stable, start descending
RECURSIVE sortByStartDescending(_)
sortByStartDescending(list) ==
  IF list = <<>> THEN <<>>
  ELSE LET rest == sortByStartDescending(Tail(list))
           x == Head(list)
           \* x goes before the first element of rest with a start <= x.start
           k == Cardinality({i \in 1..Len(rest) :
                               \A j \in 1..i : rest[j].start > x.start})
       IN SubSeq(rest, 1, k) \o <<x>> \o SubSeq(rest, k + 1, Len(rest))

\* the same sort, start ascending
RECURSIVE sortByStartAscending(_)
sortByStartAscending(list) ==
  IF list = <<>> THEN <<>>
  ELSE LET rest == sortByStartAscending(Tail(list))
           x == Head(list)
           k == Cardinality({i \in 1..Len(rest) :
                               \A j \in 1..i : rest[j].start < x.start})
       IN SubSeq(rest, 1, k) \o <<x>> \o SubSeq(rest, k + 1, Len(rest))

\* the order resolvePromptInput walks the extmarks in
resolveOrder(list) == sortByStartDescending(list)

\* resolveFrom splicing the text of whatever part the extmark is mapped to
RECURSIVE resolveFromAnyType(_, _, _, _)
resolveFromAnyType(inputText, sortedExtmarks, map, ps) ==
  IF sortedExtmarks = <<>> THEN inputText
  ELSE LET extmark == Head(sortedExtmarks)
           partIndex == mapGet(map, extmark.id)
           spliced ==
             IF partIndex # <<>> /\ partIndex[1] < Len(ps)
             THEN slice(inputText, 0, extmark.start) \o ps[partIndex[1] + 1].text
                    \o slice(inputText, extmark.end, Len(inputText))
             ELSE inputText
       IN resolveFromAnyType(spliced, Tail(sortedExtmarks), map, ps)

\* resolvePromptInput: the loop over sortedExtmarks
RECURSIVE resolveFrom(_, _, _, _)
resolveFrom(inputText, sortedExtmarks, map, ps) ==
  IF sortedExtmarks = <<>> THEN inputText
  ELSE LET extmark == Head(sortedExtmarks)
           partIndex == mapGet(map, extmark.id)
           spliced ==
             IF partIndex # <<>> /\ partIndex[1] < Len(ps)
             THEN LET part == ps[partIndex[1] + 1]
                  IN IF part.type = "text" /\ part.text # <<>>
                     THEN slice(inputText, 0, extmark.start) \o part.text
                            \o slice(inputText, extmark.end, Len(inputText))
                     ELSE inputText
             ELSE inputText
       IN resolveFrom(spliced, Tail(sortedExtmarks), map, ps)

\* parts.filter((part) => part.type !== "text")
RECURSIVE nonText(_)
nonText(ps) ==
  IF ps = <<>> THEN <<>>
  ELSE IF Head(ps).type # "text" THEN <<Head(ps)>> \o nonText(Tail(ps))
       ELSE nonText(Tail(ps))

\* ------------------------------------------------------------ memos
queuedPromptsForSession ==
  IF sessionID = NoSession THEN <<>> ELSE filter(queuedPrompts, sessionID)

queuedPromptsForSessionNewest == reverse(queuedPromptsForSession)

\* the entry being edited, as a sequence of zero or one entries
editingQueuedPrompt ==
  IF queuedEditID = NoID THEN <<>>
  ELSE LET i == findIndex(queuedPromptsForSession, queuedEditID)
       IN IF i = 0 THEN <<>> ELSE <<queuedPromptsForSession[i]>>

resolvePromptInput ==
  [inputText |-> resolveFrom(promptInput, resolveOrder(extmarks),
                             extmarkToPartIndex, parts),
   nonTextParts |-> nonText(parts)]

\* an outbound sdk.client.session call: kind is prompt, command, shell, abort or
\* create; id is the id of the queued prompt it carries, NoID for a direct call
sendPrompt(kind, sid, model, agent, inputText, id) ==
  [kind |-> kind, sessionID |-> sid, model |-> model, agent |-> agent,
   inputText |-> inputText, id |-> id]

NoCall == sendPrompt("none", NoSession, NoModel, "", <<>>, NoID)

\* ------------------------------------------------------------ initial state
Init ==
  /\ sessionID \in Sessions \cup {NoSession}
  /\ status = "idle"
  /\ promptInput = <<>>
  /\ mode = "normal"
  /\ interrupt = 0
  /\ timers = FALSE
  /\ proc = NoProc
  /\ queuedPrompts = <<>>
  /\ sendingQueuedPrompt = FALSE
  /\ queuedEditID = NoID
  /\ queuedCursor = NoCursor
  /\ queueGate = "open"
  /\ nextID = 1
  /\ pending = <<>>
  /\ creating = <<>>
  /\ call = NoCall
  /\ toast = NoToast
  /\ dispatched = <<>>
  /\ origin = <<>>
  /\ loadedID = NoID
  /\ parts = <<>>
  /\ extmarks = <<>>
  /\ extmarkToPartIndex = NoMap
  /\ nextExtmark = 1

\* ------------------------------------------------------------ effects
\* markerStale looking the entry up in the whole list instead of the active
\* session's list
markerStaleAnySession ==
  /\ queuedEditID # NoID
  /\ ~ \E i \in 1..Len(queuedPrompts) : queuedPrompts[i].id = queuedEditID

\* createEffect: the editing marker points at no entry of the active session
markerStale ==
  /\ queuedEditID # NoID
  /\ ~ \E i \in 1..Len(queuedPromptsForSession) :
         queuedPromptsForSession[i].id = queuedEditID

\* the editing-marker clear effect without setQueuedCursor(undefined)
EditMarkerClearKeepsCursor ==
  /\ markerStale
  /\ queuedEditID' = NoID
  /\ call' = NoCall
  /\ toast' = NoToast
  /\ UNCHANGED << sessionID, status, promptInput, mode, interrupt,
                  timers, proc, queuedPrompts, sendingQueuedPrompt, queuedCursor,
                  queueGate, nextID, pending, creating, dispatched, origin,
                  loadedID >>
  /\ UNCHANGED composition

EditMarkerClear ==
  /\ markerStale
  /\ queuedEditID' = NoID
  /\ queuedCursor' = NoCursor
  /\ call' = NoCall
  /\ toast' = NoToast
  /\ UNCHANGED << sessionID, status, promptInput, mode, interrupt,
                  timers, proc, queuedPrompts, sendingQueuedPrompt, queueGate, nextID,
                  pending, creating, dispatched, origin, loadedID >>
  /\ UNCHANGED composition

\* gateNext with the wait_idle stage skipped: wait_busy reopens at once
gateNextSkipsWaitIdle(gate, current) ==
  IF gate = "open" \/ gate = "paused" THEN gate
  ELSE IF gate = "wait_busy"
       THEN (IF current = "idle" THEN gate ELSE "open")
       ELSE (IF current # "idle" THEN gate ELSE "open")

\* gateNext reopening a gate that waits for the agent to start when the agent
\* is idle
gateNextReopensWhenIdle(gate, current) ==
  IF gate = "open" \/ gate = "paused" THEN gate
  ELSE IF gate = "wait_busy"
       THEN (IF current = "idle" THEN "open" ELSE "wait_idle")
       ELSE (IF current # "idle" THEN gate ELSE "open")

\* createEffect: the gate as a function of (gate, agent status)
gateNext(gate, current) ==
  IF gate = "open" \/ gate = "paused" THEN gate
  ELSE IF gate = "wait_busy"
       THEN (IF current = "idle" THEN gate ELSE "wait_idle")
       ELSE (IF current # "idle" THEN gate ELSE "open")

GateEffect ==
  /\ gateNext(queueGate, status) # queueGate
  /\ queueGate' = gateNext(queueGate, status)
  /\ call' = NoCall
  /\ toast' = NoToast
  /\ UNCHANGED << sessionID, status, promptInput, mode, interrupt,
                  timers, proc, queuedPrompts, sendingQueuedPrompt, queuedEditID,
                  queuedCursor, nextID, pending, creating, dispatched,
                  origin, loadedID >>
  /\ UNCHANGED composition

\* canDispatch without the single-flight guard
canDispatchNoFlag ==
  /\ queueGate = "open"
  /\ queuedEditID = NoID
  /\ status = "idle"
  /\ queuedPromptsForSession # <<>>

\* canDispatch without the gate guard
canDispatchNoGate ==
  /\ ~sendingQueuedPrompt
  /\ queuedEditID = NoID
  /\ status = "idle"
  /\ queuedPromptsForSession # <<>>

\* canDispatch with a single-flight guard that counts the sends of the
\* active session only
canDispatchOwnFlight ==
  /\ queueGate = "open"
  /\ ~(sendingQueuedPrompt
       /\ \E i \in 1..Len(pending) : pending[i].sessionID = sessionID)
  /\ queuedEditID = NoID
  /\ status = "idle"
  /\ queuedPromptsForSession # <<>>

\* createEffect: the guards of the dispatcher
canDispatch ==
  /\ queueGate = "open"
  /\ ~sendingQueuedPrompt
  /\ queuedEditID = NoID
  /\ status = "idle"
  /\ queuedPromptsForSession # <<>>

\* the dispatcher taking the head of the whole list
dispatchNextAnySession == queuedPrompts[1]

\* the entry the dispatcher takes
dispatchNext == queuedPromptsForSession[1]

\* the dispatcher sending `next` without taking it from the queue
dispatchKeeps(list, next) == list

\* the queue after the dispatcher has taken `next`
dispatchRemove(list, next) ==
  LET index == findIndex(list, next.id)
  IN IF index = 0 THEN list ELSE removeAt(list, index)

DispatchEffect ==
  /\ canDispatch
  /\ LET next == dispatchNext
         sent == sendPrompt("prompt", next.sessionID, next.model, next.agent,
                            next.inputText, next.id)
     IN /\ sendingQueuedPrompt' = TRUE
        /\ queuedPrompts' = dispatchRemove(queuedPrompts, next)
        /\ pending' = Append(pending, [id |-> next.id, sessionID |-> next.sessionID])
        /\ call' = sent
        /\ dispatched' = Append(dispatched, [id |-> next.id, sessionID |-> next.sessionID])
  /\ toast' = NoToast
  /\ UNCHANGED << sessionID, status, promptInput, mode, interrupt,
                  timers, proc, queuedEditID, queuedCursor, queueGate, nextID,
                  creating, origin, loadedID >>
  /\ UNCHANGED composition

\* no effect has work to do: the next event can be handled
Quiescent == ~markerStale /\ gateNext(queueGate, status) = queueGate /\ ~canDispatch

\* SendSettled with the flag cleared in .then instead of .finally
SendSettledThen(i, ok) ==
  /\ Quiescent
  /\ i \in 1..Len(pending)
  /\ pending' = removeAt(pending, i)
  /\ sendingQueuedPrompt' = IF ok THEN FALSE ELSE sendingQueuedPrompt
  /\ toast' = IF ok THEN NoToast ELSE "Failed to send queued prompt"
  /\ call' = NoCall
  /\ UNCHANGED << sessionID, status, promptInput, mode, interrupt,
                  timers, proc, queuedPrompts, queuedEditID, queuedCursor, queueGate,
                  nextID, creating, dispatched, origin, loadedID >>
  /\ UNCHANGED composition

\* SendSettled without the .finally that clears the flag
SendSettledKeepsFlag(i, ok) ==
  /\ Quiescent
  /\ i \in 1..Len(pending)
  /\ pending' = removeAt(pending, i)
  /\ toast' = IF ok THEN NoToast ELSE "Failed to send queued prompt"
  /\ call' = NoCall
  /\ UNCHANGED << sessionID, status, promptInput, mode, interrupt,
                  timers, proc, queuedPrompts, sendingQueuedPrompt, queuedEditID,
                  queuedCursor, queueGate, nextID, creating, dispatched, origin,
                  loadedID >>
  /\ UNCHANGED composition

\* the promise of a queued sendPrompt settles: .catch (toast) and .finally
SendSettled(i, ok) ==
  /\ Quiescent
  /\ i \in 1..Len(pending)
  /\ pending' = removeAt(pending, i)
  /\ sendingQueuedPrompt' = FALSE
  /\ toast' = IF ok THEN NoToast ELSE "Failed to send queued prompt"
  /\ call' = NoCall
  /\ UNCHANGED << sessionID, status, promptInput, mode, interrupt,
                  timers, proc, queuedPrompts, queuedEditID, queuedCursor, queueGate,
                  nextID, creating, dispatched, origin, loadedID >>
  /\ UNCHANGED composition

\* ------------------------------------------------------------ environment
\* SwitchSession without the effect that opens the gate
SwitchSessionKeepsGate(s, t) ==
  /\ Quiescent
  /\ sessionID # NoSession
  /\ s # sessionID
  /\ sessionID' = s
  /\ status' = t
  /\ call' = NoCall
  /\ toast' = NoToast
  /\ UNCHANGED << promptInput, mode, interrupt, timers, proc, queueGate,
                  queuedPrompts, sendingQueuedPrompt, queuedEditID,
                  queuedCursor, nextID, pending, creating, dispatched,
                  origin, loadedID >>
  /\ UNCHANGED composition

\* SwitchSession that drops the dispatch in flight
SwitchSessionCancels(s, t) ==
  /\ Quiescent
  /\ sessionID # NoSession
  /\ s # sessionID
  /\ sessionID' = s
  /\ status' = t
  /\ queueGate' = "open"
  /\ pending' = <<>>
  /\ sendingQueuedPrompt' = FALSE
  /\ call' = NoCall
  /\ toast' = NoToast
  /\ UNCHANGED << promptInput, mode, interrupt, timers, proc, queuedPrompts,
                  queuedEditID, queuedCursor, nextID, creating, dispatched,
                  origin, loadedID >>
  /\ UNCHANGED composition

\* props.sessionID changes: the on(() => props.sessionID) effect opens the gate;
\* the status memo now reads the feed of session s, whatever it holds (t)
SwitchSession(s, t) ==
  /\ Quiescent
  /\ sessionID # NoSession
  /\ s # sessionID
  /\ sessionID' = s
  /\ status' = t
  /\ queueGate' = "open"
  /\ call' = NoCall
  /\ toast' = NoToast
  /\ UNCHANGED << promptInput, mode, interrupt, timers, proc,
                  queuedPrompts, sendingQueuedPrompt, queuedEditID,
                  queuedCursor, nextID, pending, creating, dispatched,
                  origin, loadedID >>
  /\ UNCHANGED composition

\* the transport layer updates the status feed of the active session
StatusChange(t) ==
  /\ Quiescent
  /\ sessionID # NoSession
  /\ status # t
  /\ status' = t
  /\ call' = NoCall
  /\ toast' = NoToast
  /\ UNCHANGED << sessionID, promptInput, mode, interrupt, timers, proc,
                  queuedPrompts, sendingQueuedPrompt, queuedEditID,
                  queuedCursor, queueGate, nextID, pending, creating,
                  dispatched, origin, loadedID >>
  /\ UNCHANGED composition

\* compositionCleared without setStore("extmarkToPartIndex", new Map())
compositionKeepsMap ==
  /\ parts' = <<>>
  /\ extmarks' = <<>>
  /\ UNCHANGED extmarkToPartIndex
  /\ nextExtmark' = 1

\* input.extmarks.clear() with the parts and the map reset
compositionCleared ==
  /\ parts' = <<>>
  /\ extmarks' = <<>>
  /\ extmarkToPartIndex' = NoMap
  /\ nextExtmark' = 1

\* the extents the text buffer reports after an edit that leaves `value`: every
\* extmark is either destroyed or spans some non-empty range of the new text
PostEditExtmarks(marks, value) ==
  LET Ranges == { r \in (0..Len(value)) \X (0..Len(value)) : r[1] < r[2] }
      Fates == [1..Len(marks) -> Ranges \cup { << 0, 0 >> }]
      RECURSIVE build(_, _)
      build(f, i) ==
        IF i > Len(marks) THEN <<>>
        ELSE IF f[i] = << 0, 0 >> THEN build(f, i + 1)
        ELSE << [id |-> marks[i].id, start |-> f[i][1], end |-> f[i][2]] >>
               \o build(f, i + 1)
  IN { build(f, 1) : f \in Fates }

\* onContentChange: the user edits the draft
ContentChange(value) ==
  /\ Quiescent
  /\ value # promptInput
  /\ promptInput' = value
  /\ \E allExtmarks \in PostEditExtmarks(extmarks, value) :
       LET synced == syncExtmarksWithPromptParts(allExtmarks, extmarkToPartIndex,
                                                 parts)
       IN /\ extmarks' = allExtmarks
          /\ parts' = synced.parts
          /\ extmarkToPartIndex' = synced.extmarkToPartIndex
  /\ UNCHANGED nextExtmark
  /\ call' = NoCall
  /\ toast' = NoToast
  /\ UNCHANGED << sessionID, status, mode, interrupt, timers, proc,
                  queuedPrompts, sendingQueuedPrompt, queuedEditID,
                  queuedCursor, queueGate, nextID, pending, creating,
                  dispatched, origin, loadedID >>

\* input_clear that also drops the editing marker and the cursor
InputClearDropsMarker ==
  /\ Quiescent
  /\ promptInput # <<>>
  /\ promptInput' = <<>>
  /\ loadedID' = NoID
  /\ queuedEditID' = NoID
  /\ queuedCursor' = NoCursor
  /\ call' = NoCall
  /\ toast' = NoToast
  /\ UNCHANGED << sessionID, status, mode, interrupt, timers, proc,
                  queuedPrompts, sendingQueuedPrompt, queueGate, nextID,
                  pending, creating, dispatched, origin >>
  /\ compositionCleared

\* onKeyDown, input_clear
InputClear ==
  /\ Quiescent
  /\ promptInput # <<>>
  /\ promptInput' = <<>>
  /\ loadedID' = NoID
  /\ call' = NoCall
  /\ toast' = NoToast
  /\ UNCHANGED << sessionID, status, mode, interrupt, timers, proc,
                  queuedPrompts, sendingQueuedPrompt, queuedEditID,
                  queuedCursor, queueGate, nextID, pending, creating,
                  dispatched, origin >>
  /\ compositionCleared

\* PromptRef.reset: the draft is cleared whatever it holds
reset ==
  /\ Quiescent
  /\ promptInput' = <<>>
  /\ loadedID' = NoID
  /\ call' = NoCall
  /\ toast' = NoToast
  /\ UNCHANGED << sessionID, status, mode, interrupt, timers, proc,
                  queuedPrompts, sendingQueuedPrompt, queuedEditID,
                  queuedCursor, queueGate, nextID, pending, creating,
                  dispatched, origin >>
  /\ compositionCleared

\* onKeyDown, "!" at offset 0 and escape/backspace in shell mode
SetMode(m) ==
  /\ Quiescent
  /\ mode # m
  /\ mode' = m
  /\ call' = NoCall
  /\ toast' = NoToast
  /\ UNCHANGED << sessionID, status, promptInput, interrupt, timers, proc,
                  queuedPrompts, sendingQueuedPrompt, queuedEditID,
                  queuedCursor, queueGate, nextID, pending, creating,
                  dispatched, origin, loadedID >>
  /\ UNCHANGED composition

\* ------------------------------------------------------------ interrupt
\* command session.interrupt (enabled while the agent is not idle); `started` is
\* the pending setTimeout callbacks once this interrupt has added its own
interruptWith(started) ==
  /\ Quiescent
  /\ status # "idle"
  /\ IF mode = "shell"
     THEN /\ mode' = "normal"
          /\ call' = NoCall
          /\ UNCHANGED << interrupt, timers, queueGate >>
     ELSE /\ sessionID # NoSession
          /\ timers' = started
          /\ IF interrupt + 1 >= 2
             THEN /\ call' = sendPrompt("abort", sessionID, NoModel, "", <<>>, NoID)
                  /\ queueGate' = "paused"
                  /\ interrupt' = 0
             ELSE /\ call' = NoCall
                  /\ interrupt' = interrupt + 1
                  /\ UNCHANGED queueGate
          /\ UNCHANGED mode
  /\ toast' = NoToast
  /\ UNCHANGED << sessionID, status, promptInput, queuedPrompts,
                  sendingQueuedPrompt, queuedEditID, queuedCursor, nextID,
                  pending, creating, dispatched, origin, loadedID, proc >>
  /\ UNCHANGED composition

\* session.interrupt where the pending callbacks are not told apart
Interrupt == interruptWith(TRUE)

\* the setTimeout(..., 5000) callback of an earlier interrupt; more of them
\* may be pending after it
InterruptTimer ==
  /\ Quiescent
  /\ timers
  /\ timers' \in BOOLEAN
  /\ interrupt' = 0
  /\ call' = NoCall
  /\ toast' = NoToast
  /\ UNCHANGED << sessionID, status, promptInput, mode, queuedPrompts,
                  sendingQueuedPrompt, queuedEditID, queuedCursor, queueGate,
                  nextID, pending, creating, dispatched, origin, loadedID, proc >>
  /\ UNCHANGED composition

\* ------------------------------------------------------------ navigator
\* the index editQueued selects in the newest-first list of `length` entries
editQueuedNext(current, direction, length) ==
  IF current = NoCursor
  THEN (IF direction = -1 THEN 0 ELSE length - 1)
  ELSE LET index == current + direction
       IN IF index < 0 THEN length - 1
          ELSE IF index >= length THEN 0
          ELSE index

editQueued(direction) ==
  /\ Quiescent
  /\ sessionID # NoSession
  /\ mode = "normal"
  /\ LET list == queuedPromptsForSessionNewest
     IN /\ Len(list) # 0
        /\ LET next == editQueuedNext(queuedCursor, direction, Len(list))
           IN /\ next + 1 \in 1..Len(list)
              /\ queuedCursor' = next
              /\ queuedEditID' = list[next + 1].id
              /\ promptInput' = list[next + 1].inputText
              /\ loadedID' = list[next + 1].id
              /\ parts' = list[next + 1].parts
              /\ LET restored == restoreExtmarksFromParts(list[next + 1].parts)
                 IN /\ extmarks' = restored.extmarks
                    /\ extmarkToPartIndex' = restored.extmarkToPartIndex
                    /\ nextExtmark' = restored.nextExtmark
  /\ call' = NoCall
  /\ toast' = NoToast
  /\ UNCHANGED << sessionID, status, mode, interrupt, timers, proc,
                  queuedPrompts, sendingQueuedPrompt, queueGate, nextID,
                  pending, creating, dispatched, origin >>

\* ------------------------------------------------------------ submit
\* editInPlace as remove-and-append: the edited entry moves to the tail
editInPlaceMoves(list, id, inputText, nonTextParts) ==
  LET i == findIndex(list, id)
  IN IF i = 0 THEN list
     ELSE Append(removeAt(list, i),
                 [list[i] EXCEPT !.inputText = inputText, !.parts = nonTextParts])

\* editInPlace building the edited entry anew, without the variant
editInPlaceDropsVariant(list, id, inputText, nonTextParts) ==
  [i \in 1..Len(list) |->
     IF list[i].id = id
     THEN [list[i] EXCEPT !.inputText = inputText, !.parts = nonTextParts,
                          !.variant = ""]
     ELSE list[i]]

\* setQueuedPrompts(list.map(...)) of the in-place edit branch
editInPlace(list, id, inputText, nonTextParts) ==
  [i \in 1..Len(list) |->
     IF list[i].id = id
     THEN [list[i] EXCEPT !.inputText = inputText, !.parts = nonTextParts]
     ELSE list[i]]

\* directSend that arms the gate whatever its state
directSendArmsGate(sid, selectedModel, agent, inputText, isCommand) ==
  /\ queueGate' = "wait_busy"
  /\ IF mode = "shell"
     THEN /\ call' = sendPrompt("shell", sid, selectedModel, agent, inputText, NoID)
          /\ mode' = "normal"
     ELSE /\ call' = sendPrompt(IF startsWith(inputText, <<"/">>) /\ isCommand
                                THEN "command" ELSE "prompt",
                                sid, selectedModel, agent, inputText, NoID)
          /\ UNCHANGED mode
  /\ promptInput' = <<>>
  /\ loadedID' = NoID
  /\ toast' = NoToast
  /\ compositionCleared

\* directSend that leaves the draft in the input
directSendKeepsDraft(sid, selectedModel, agent, inputText, isCommand) ==
  /\ queueGate' = IF queueGate = "paused" THEN "wait_busy" ELSE queueGate
  /\ IF mode = "shell"
     THEN /\ call' = sendPrompt("shell", sid, selectedModel, agent, inputText, NoID)
          /\ mode' = "normal"
     ELSE /\ call' = sendPrompt(IF startsWith(inputText, <<"/">>) /\ isCommand
                                THEN "command" ELSE "prompt",
                                sid, selectedModel, agent, inputText, NoID)
          /\ UNCHANGED mode
  /\ UNCHANGED promptInput
  /\ loadedID' = NoID
  /\ toast' = NoToast
  /\ compositionCleared

\* submit, from "if (queueGate() === paused)" to the end: the direct send
\* directSend held back while a queued send is in flight
directSendWaitsForFlight(sid, selectedModel, agent, inputText, isCommand) ==
  /\ ~sendingQueuedPrompt
  /\ queueGate' = IF queueGate = "paused" THEN "wait_busy" ELSE queueGate
  /\ IF mode = "shell"
     THEN /\ call' = sendPrompt("shell", sid, selectedModel, agent, inputText, NoID)
          /\ mode' = "normal"
     ELSE /\ call' = sendPrompt(IF startsWith(inputText, <<"/">>) /\ isCommand
                                THEN "command" ELSE "prompt",
                                sid, selectedModel, agent, inputText, NoID)
          /\ UNCHANGED mode
  /\ promptInput' = <<>>
  /\ loadedID' = NoID
  /\ toast' = NoToast
  /\ compositionCleared

directSend(sid, selectedModel, agent, inputText, isCommand) ==
  /\ queueGate' = IF queueGate = "paused" THEN "wait_busy" ELSE queueGate
  /\ IF mode = "shell"
     THEN /\ call' = sendPrompt("shell", sid, selectedModel, agent, inputText, NoID)
          /\ mode' = "normal"
     ELSE /\ call' = sendPrompt(IF startsWith(inputText, <<"/">>) /\ isCommand
                                THEN "command" ELSE "prompt",
                                sid, selectedModel, agent, inputText, NoID)
          /\ UNCHANGED mode
  /\ promptInput' = <<>>
  /\ loadedID' = NoID
  /\ toast' = NoToast
  /\ compositionCleared

\* the words submit treats as a request to leave the program
ExitWords == { <<"e", "x", "i", "t">>, <<"q", "u", "i", "t">>, <<":", "q">> }

\* the prefixes of the commands submit handles locally (account dialogs)
LocalCommands ==
  { <<"/", "u", "s", "a", "g", "e">>,
    <<"/", "c", "o", "d", "e", "x", "w", "h", "o">>,
    <<"/", "c", "o", "d", "e", "x", "s", "w", "a", "p">> }

\* whether sync.data.command has the command the text names: the list is read
\* only for a text that starts with a slash
commandKnown(inputText) ==
  IF startsWith(inputText, <<"/">>) THEN BOOLEAN ELSE { FALSE }

\* commitEdit moving a paused gate as a direct send does
commitEditArmsGate(queuedEditing, payload) ==
  /\ queuedPrompts' = editInPlace(queuedPrompts, queuedEditing[1].id,
                                  payload.inputText, payload.nonTextParts)
  /\ queuedCursor' = NoCursor
  /\ queuedEditID' = NoID
  /\ promptInput' = <<>>
  /\ loadedID' = NoID
  /\ toast' = "Queued message updated"
  /\ call' = NoCall
  /\ compositionCleared
  /\ queueGate' = IF queueGate = "paused" THEN "wait_busy" ELSE queueGate
  /\ UNCHANGED << mode, creating >>

\* submit while a queued entry is being edited: the entry takes the draft
commitEdit(queuedEditing, payload) ==
  /\ queuedPrompts' = editInPlace(queuedPrompts, queuedEditing[1].id,
                                  payload.inputText, payload.nonTextParts)
  /\ queuedCursor' = NoCursor
  /\ queuedEditID' = NoID
  /\ promptInput' = <<>>
  /\ loadedID' = NoID
  /\ toast' = "Queued message updated"
  /\ call' = NoCall
  /\ compositionCleared
  /\ UNCHANGED << mode, queueGate, creating >>

\* submit, with the values it reads from the model and agent selection
submitWith(selectedModel, agent, isCommand) ==
  /\ promptInput # <<>>
  /\ LET trimmed == trim(promptInput)
         payload == resolvePromptInput
         queuedEditing == editingQueuedPrompt
     IN IF trimmed \in ExitWords
        THEN /\ call' = sendPrompt("exit", NoSession, NoModel, "", <<>>, NoID)
             /\ toast' = NoToast
             /\ UNCHANGED << promptInput, mode, queueGate, creating, loadedID,
                             queuedPrompts, queuedCursor, queuedEditID,
                             composition >>
        ELSE IF \E c \in LocalCommands : startsWith(trimmed, c)
        THEN /\ promptInput' = <<>>
             /\ loadedID' = NoID
             /\ call' = sendPrompt("account", NoSession, NoModel, "", <<>>, NoID)
             /\ toast' = NoToast
             /\ compositionCleared
             /\ UNCHANGED << mode, queueGate, creating, queuedPrompts,
                             queuedCursor, queuedEditID >>
        ELSE IF queuedEditing # <<>>
        THEN commitEdit(queuedEditing, payload)
        ELSE /\ IF selectedModel = NoModel
                THEN /\ toast' = "Connect a provider to send prompts"
                     /\ call' = NoCall
                     /\ UNCHANGED << promptInput, mode, queueGate, creating,
                                     loadedID, composition >>
                ELSE IF sessionID = NoSession
                THEN /\ Len(creating) < MaxCreating
                     /\ creating' = Append(creating,
                          [inputText |-> payload.inputText,
                           selectedModel |-> selectedModel])
                     /\ call' = sendPrompt("create", NoSession, NoModel, "", <<>>, NoID)
                     /\ toast' = NoToast
                     /\ UNCHANGED << promptInput, mode, queueGate, loadedID,
                                     composition >>
                ELSE /\ directSend(sessionID, selectedModel, agent,
                                   payload.inputText, isCommand)
                     /\ UNCHANGED creating
             /\ UNCHANGED << queuedPrompts, queuedCursor, queuedEditID >>
  /\ UNCHANGED << sessionID, status, interrupt, timers, proc,
                  sendingQueuedPrompt, nextID, pending, dispatched, origin >>

submit ==
  \E selectedModel \in Models \cup {NoModel}, agent \in Agents,
     isCommand \in commandKnown(resolvePromptInput.inputText) :
    submitWith(selectedModel, agent, isCommand)

\* onSubmit of the textarea and the prompt.submit command
Submit == Quiescent /\ submit

\* submit resumes after await sdk.client.session.create
SubmitCreated(sid) ==
  /\ Quiescent
  /\ creating # <<>>
  /\ creating' = Tail(creating)
  /\ \E agent \in Agents, isCommand \in commandKnown(Head(creating).inputText) :
       directSend(sid, Head(creating).selectedModel, agent,
                  Head(creating).inputText, isCommand)
  /\ UNCHANGED << sessionID, status, interrupt, timers, proc, queuedPrompts,
                  sendingQueuedPrompt, queuedEditID, queuedCursor, nextID,
                  pending, dispatched, origin >>

\* ------------------------------------------------------------ queue action
\* the entry queueAtEndOfLoop appends
newQueuedPrompt(id, sid, payload, agent, selectedModel, variant) ==
  [id |-> id, sessionID |-> sid, inputText |-> payload.inputText,
   parts |-> payload.nonTextParts, agent |-> agent, model |-> selectedModel,
   variant |-> variant]

\* queueFallsBack without the test of the agent status
queueFallsBackUnlessIdle ==
  \/ sessionID = NoSession
  \/ mode # "normal"
  \/ trim(promptInput) = <<>>
  \/ startsWith(trim(promptInput), <<"/">>)

\* whether queueAtEndOfLoop falls back to submit
queueFallsBack ==
  \/ sessionID = NoSession
  \/ status = "idle"
  \/ mode # "normal"
  \/ trim(promptInput) = <<>>
  \/ startsWith(trim(promptInput), <<"/">>)

\* enqueueDraft leaving the editing marker and the cursor as they are
enqueueDraftKeepsMarker(selectedModel, agent) ==
  /\ nextID <= MaxMsgs
  /\ queuedPrompts' = Append(queuedPrompts,
       newQueuedPrompt(nextID, sessionID, resolvePromptInput,
                       agent, selectedModel, Variant))
  /\ origin' = Append(origin, sessionID)
  /\ nextID' = nextID + 1
  /\ promptInput' = <<>>
  /\ loadedID' = NoID
  /\ toast' = "Queued for end of loop"
  /\ compositionCleared
  /\ call' = NoCall
  /\ UNCHANGED << sessionID, status, mode, interrupt,
                  timers, proc, sendingQueuedPrompt, queueGate, pending,
                  creating, dispatched, queuedCursor, queuedEditID >>

\* the queueing branch of queueAtEndOfLoop: the draft goes to the tail
enqueueDraft(selectedModel, agent) ==
  /\ nextID <= MaxMsgs
  /\ queuedPrompts' = Append(queuedPrompts,
       newQueuedPrompt(nextID, sessionID, resolvePromptInput,
                       agent, selectedModel, Variant))
  /\ origin' = Append(origin, sessionID)
  /\ nextID' = nextID + 1
  /\ queuedCursor' = NoCursor
  /\ queuedEditID' = NoID
  /\ promptInput' = <<>>
  /\ loadedID' = NoID
  /\ toast' = "Queued for end of loop"
  /\ compositionCleared
  /\ call' = NoCall
  /\ UNCHANGED << sessionID, status, mode, interrupt,
                  timers, proc, sendingQueuedPrompt, queueGate, pending,
                  creating, dispatched >>

\* queueAtEndOfLoopWith without the model check
queueAtEndOfLoopUnchecked(selectedModel, agent) ==
  IF queueFallsBack
  THEN \E isCommand \in commandKnown(resolvePromptInput.inputText) :
         submitWith(selectedModel, agent, isCommand)
  ELSE enqueueDraft(selectedModel, agent)

\* queueAtEndOfLoop, with the values it reads from the model and agent selection
queueAtEndOfLoopWith(selectedModel, agent) ==
  IF queueFallsBack
  THEN \E isCommand \in commandKnown(resolvePromptInput.inputText) :
         submitWith(selectedModel, agent, isCommand)
  ELSE IF selectedModel = NoModel
       THEN /\ toast' = "Connect a provider to send prompts"
            /\ call' = NoCall
            /\ UNCHANGED << sessionID, status, promptInput, mode,
                            interrupt, timers, proc, queuedPrompts,
                            sendingQueuedPrompt, queuedEditID, queuedCursor,
                            queueGate, nextID, pending, creating,
                            dispatched, origin, loadedID, composition >>
       ELSE enqueueDraft(selectedModel, agent)

queueAtEndOfLoop ==
  /\ Quiescent
  /\ \E selectedModel \in Models \cup {NoModel}, agent \in Agents :
       queueAtEndOfLoopWith(selectedModel, agent)

\* ------------------------------------------------------------ specification
Next ==
  \/ EditMarkerClear
  \/ GateEffect
  \/ DispatchEffect
  \/ \E i \in 1..Len(pending), ok \in BOOLEAN : SendSettled(i, ok)
  \/ \E s \in Sessions, t \in StatusTypes : SwitchSession(s, t)
  \/ \E t \in StatusTypes : StatusChange(t)
  \/ \E value \in Drafts : ContentChange(value)
  \/ InputClear
  \/ \E m \in {"normal", "shell"} : SetMode(m)
  \/ Interrupt
  \/ InterruptTimer
  \/ \E direction \in {-1, 1} : editQueued(direction)
  \/ Submit
  \/ \E sid \in Sessions : SubmitCreated(sid)
  \/ queueAtEndOfLoop

Spec == Init /\ [][Next]_vars

\* ------------------------------------------------------------ navigator runs
\* largest queue the navigator is run on
MaxNav == 3

\* n prompts were queued in one session while its agent was busy
InitNav ==
  \E sid \in Sessions, n \in 1..MaxNav :
    \E texts \in [1..n -> Drafts \ {<<>>}] :
      /\ sessionID = sid
      /\ status = "busy"
      /\ promptInput = <<>>
      /\ mode = "normal"
      /\ interrupt = 0
      /\ timers = FALSE
      /\ proc = NoProc
      /\ queuedPrompts =
           [i \in 1..n |->
              newQueuedPrompt(i, sid, [inputText |-> texts[i], nonTextParts |-> <<>>],
                              "build", "gpt", Variant)]
      /\ sendingQueuedPrompt = FALSE
      /\ queuedEditID = NoID
      /\ queuedCursor = NoCursor
      /\ queueGate = "open"
      /\ nextID = n + 1
      /\ pending = <<>>
      /\ creating = <<>>
      /\ call = NoCall
      /\ toast = NoToast
      /\ dispatched = <<>>
      /\ origin = [i \in 1..n |-> sid]
      /\ loadedID = NoID
      /\ parts = <<>>
      /\ extmarks = <<>>
      /\ extmarkToPartIndex = NoMap
      /\ nextExtmark = 1

NextNav ==
  \/ \E direction \in {-1, 1} : editQueued(direction)
  \/ \E value \in Drafts : ContentChange(value)
  \/ InputClear

SpecNav == InitNav /\ [][NextNav]_vars

\* ------------------------------------------------------------ submit runs
\* drafts that reach the early branches of submit and queueAtEndOfLoop: blank
\* text, a slash command, a local command and an exit word
DraftsSubmit ==
  Drafts \cup { <<" ">>, <<"/", "x">>, <<"/", "u", "s", "a", "g", "e">>,
                <<"e", "x", "i", "t">> }

\* the home prompt, or a session whose earlier queued prompts have all been
\* sent: one more prompt can be queued
InitSubmit ==
  \E sid \in Sessions \cup {NoSession} :
    /\ sessionID = sid
    /\ status = "idle"
    /\ promptInput = <<>>
    /\ mode = "normal"
    /\ interrupt = 0
    /\ timers = FALSE
    /\ proc = NoProc
    /\ queuedPrompts = <<>>
    /\ sendingQueuedPrompt = FALSE
    /\ queuedEditID = NoID
    /\ queuedCursor = NoCursor
    /\ queueGate = "open"
    /\ nextID = MaxMsgs
    /\ pending = <<>>
    /\ creating = <<>>
    /\ call = NoCall
    /\ toast = NoToast
    /\ dispatched = IF sid = NoSession THEN <<>>
                    ELSE [i \in 1..(MaxMsgs - 1) |-> [id |-> i, sessionID |-> sid]]
    /\ origin = [i \in 1..(MaxMsgs - 1) |-> sid]
    /\ loadedID = NoID
    /\ parts = <<>>
    /\ extmarks = <<>>
    /\ extmarkToPartIndex = NoMap
    /\ nextExtmark = 1

NextSubmit ==
  \/ Next
  \/ \E value \in DraftsSubmit : ContentChange(value)

SpecSubmit == InitSubmit /\ [][NextSubmit]_vars

\* ------------------------------------------------------------ queue runs
\* a handler that returns before it has done anything
returnsAtOnce ==
  /\ call' = NoCall
  /\ toast' = NoToast
  /\ UNCHANGED << sessionID, status, promptInput, mode, interrupt, timers, proc,
                  queuedPrompts, sendingQueuedPrompt, queuedEditID, queuedCursor,
                  queueGate, nextID, pending, creating, dispatched, origin,
                  loadedID >>
  /\ UNCHANGED composition

\* queueAtEndOfLoop from its first line: disabled is props.disabled, visible is
\* autocomplete?.visible
queueAtEndOfLoopShown(disabled, visible, selectedModel, agent) ==
  /\ Quiescent
  /\ IF disabled \/ visible THEN returnsAtOnce
     ELSE queueAtEndOfLoopWith(selectedModel, agent)

\* submit from its first line
submitShown(disabled, visible, selectedModel, agent, isCommand) ==
  /\ Quiescent
  /\ IF disabled THEN returnsAtOnce
     ELSE IF visible /\ ~ \E c \in LocalCommands : startsWith(trim(promptInput), c)
     THEN returnsAtOnce
     ELSE submitWith(selectedModel, agent, isCommand)

NextQueue ==
  \/ DispatchEffect
  \/ \E i \in 1..Len(pending), ok \in BOOLEAN : SendSettled(i, ok)
  \/ \E t \in StatusTypes : StatusChange(t)
  \/ \E value \in DraftsSubmit : ContentChange(value)
  \/ \E m \in {"normal", "shell"} : SetMode(m)
  \/ \E direction \in {-1, 1} : editQueued(direction)
  \/ \E sid \in Sessions : SubmitCreated(sid)
  \/ \E disabled, visible \in BOOLEAN, selectedModel \in Models \cup {NoModel},
        agent \in Agents :
       queueAtEndOfLoopShown(disabled, visible, selectedModel, agent)
  \/ \E disabled, visible \in BOOLEAN, selectedModel \in Models \cup {NoModel},
        agent \in Agents, isCommand \in commandKnown(resolvePromptInput.inputText) :
       submitShown(disabled, visible, selectedModel, agent, isCommand)

SpecQueue == InitSubmit /\ [][NextQueue]_vars

\* ------------------------------------------------------------ switch runs
\* prompts are queued, edited and sent while the user goes from one session to
\* another and the agents start and finish
NextSwitch ==
  \/ EditMarkerClear
  \/ DispatchEffect
  \/ \E i \in 1..Len(pending), ok \in BOOLEAN : SendSettled(i, ok)
  \/ \E s \in Sessions, t \in StatusTypes : SwitchSession(s, t)
  \/ \E t \in StatusTypes : StatusChange(t)
  \/ \E value \in Drafts : ContentChange(value)
  \/ \E direction \in {-1, 1} : editQueued(direction)
  \/ Submit
  \/ queueAtEndOfLoop

\* a session is open
InitSwitch == Init /\ sessionID # NoSession

SpecSwitch == InitSwitch /\ [][NextSwitch]_vars

\* ------------------------------------------------------------ gate runs
\* prompts are queued and sent, the agent is interrupted and starts and
\* finishes, the user goes from one session to another
NextGate ==
  \/ GateEffect
  \/ DispatchEffect
  \/ \E i \in 1..Len(pending), ok \in BOOLEAN : SendSettled(i, ok)
  \/ \E s \in Sessions, t \in StatusTypes : SwitchSession(s, t)
  \/ \E t \in StatusTypes : StatusChange(t)
  \/ \E value \in Drafts : ContentChange(value)
  \/ Interrupt
  \/ InterruptTimer
  \/ EditMarkerClear
  \/ \E direction \in {-1, 1} : editQueued(direction)
  \/ Submit
  \/ queueAtEndOfLoop

SpecGate == InitSwitch /\ [][NextGate]_vars

\* ------------------------------------------------------------ clear runs
\* prompts are queued, loaded for editing and sent while the draft is cleared
\* by the key and by the owner of the prompt
NextClear ==
  \/ NextSwitch
  \/ InputClear
  \/ reset

SpecClear == InitSwitch /\ [][NextClear]_vars

\* ------------------------------------------------------------ composition runs
\* extmarks created in one draft
MaxParts == 2
\* length of the text buffer
MaxBuffer == 5

\* input.insertText(text) with the cursor at offset
insertText(buffer, offset, text) ==
  slice(buffer, 0, offset) \o text \o slice(buffer, offset, Len(buffer))

\* the decimal digits of `[Image ${count + 1}]`
Digit(n) == << "1", "2", "3", "4", "5", "6", "7", "8", "9" >>[n]

\* number of image file parts
imageCount(ps) == Cardinality({i \in 1..Len(ps) : ps[i].type = "file"})

\* the extents the text buffer reports after an insertion at offset that leaves
\* `value`: the extmarks that end at or before offset stay where they are
PostInsertExtmarks(marks, value, offset) ==
  { after \in PostEditExtmarks(marks, value) :
      \A i \in 1..Len(marks) :
        marks[i].end <= offset => \E j \in 1..Len(after) : after[j] = marks[i] }

\* extmarkEnd taking in the separator inserted after the virtual text
extmarkEndWithSeparator(extmarkStart, virtualText) ==
  extmarkStart + Len(virtualText) + 1

\* const extmarkEnd = extmarkStart + virtualText.length
extmarkEndOf(extmarkStart, virtualText) == extmarkStart + Len(virtualText)

\* the part and the extmark an insertion at currentOffset creates, after the
\* buffer has reported the new extents of the extmarks it already had
insertPart(type, text, virtualText, currentOffset) ==
  /\ Quiescent
  /\ nextExtmark <= MaxParts
  /\ Len(promptInput) + Len(virtualText) + 1 <= MaxBuffer
  /\ LET value == insertText(promptInput, currentOffset, virtualText \o << " " >>)
         extmarkStart == currentOffset
         extmarkEnd == extmarkEndOf(extmarkStart, virtualText)
     IN /\ promptInput' = value
        /\ \E allExtmarks \in PostInsertExtmarks(extmarks, value, currentOffset) :
             LET synced == syncExtmarksWithPromptParts(allExtmarks,
                                                       extmarkToPartIndex, parts)
                 partIndex == Len(synced.parts)
             IN /\ extmarks' = Append(allExtmarks,
                                      [id |-> nextExtmark, start |-> extmarkStart,
                                       end |-> extmarkEnd])
                /\ parts' = Append(synced.parts,
                                   [type |-> type, text |-> text,
                                    source |-> [start |-> extmarkStart,
                                                end |-> extmarkEnd,
                                                value |-> virtualText]])
                /\ extmarkToPartIndex' =
                     mapSet(synced.extmarkToPartIndex, nextExtmark, partIndex)
  /\ nextExtmark' = nextExtmark + 1
  /\ call' = NoCall
  /\ toast' = NoToast
  /\ UNCHANGED << sessionID, status, mode, interrupt, timers, proc, queuedPrompts,
                  sendingQueuedPrompt, queuedEditID, queuedCursor, queueGate,
                  nextID, pending, creating, dispatched, origin, loadedID >>

\* pasteText(text, virtualText) with the cursor at currentOffset
pasteText(text, virtualText, currentOffset) ==
  insertPart("text", text, virtualText, currentOffset)

\* pasteImage(file) with the cursor at currentOffset
pasteImage(currentOffset) ==
  insertPart("file", <<>>, << "I", Digit(imageCount(parts) + 1) >>, currentOffset)

\* the texts an edit leaves in the buffer
CompTexts == { <<>>, << "a" >>, << "a", "b" >> }

\* where the cursor stands when something is pasted: at either end of the text
CursorOffsets == { 0, Len(promptInput) }

\* a session whose agent is busy, with an empty draft and room for one more
\* queued prompt
InitComp ==
  \E sid \in Sessions :
    /\ sessionID = sid
    /\ status = "busy"
    /\ promptInput = <<>>
    /\ mode = "normal"
    /\ interrupt = 0
    /\ timers = FALSE
    /\ proc = NoProc
    /\ queuedPrompts = <<>>
    /\ sendingQueuedPrompt = FALSE
    /\ queuedEditID = NoID
    /\ queuedCursor = NoCursor
    /\ queueGate = "open"
    /\ nextID = MaxMsgs
    /\ pending = <<>>
    /\ creating = <<>>
    /\ call = NoCall
    /\ toast = NoToast
    /\ dispatched = [i \in 1..(MaxMsgs - 1) |-> [id |-> i, sessionID |-> sid]]
    /\ origin = [i \in 1..(MaxMsgs - 1) |-> sid]
    /\ loadedID = NoID
    /\ parts = <<>>
    /\ extmarks = <<>>
    /\ extmarkToPartIndex = NoMap
    /\ nextExtmark = 1

NextComp ==
  \/ \E currentOffset \in CursorOffsets :
       pasteText(<< "x", "y" >>, << "P" >>, currentOffset)
  \/ \E currentOffset \in CursorOffsets : pasteImage(currentOffset)
  \/ \E value \in CompTexts : ContentChange(value)
  \/ InputClear

SpecComp == InitComp /\ [][NextComp]_vars

\* ------------------------------------------------------------ restore runs
\* drafts are built by pasting at the end of the text, queued, loaded again
\* and committed
NextRestore ==
  \/ pasteText(<< "x", "y" >>, << "P" >>, Len(promptInput))
  \/ pasteImage(Len(promptInput))
  \/ InputClear
  \/ queueAtEndOfLoop
  \/ \E direction \in {-1, 1} : editQueued(direction)
  \/ Submit

SpecRestore == InitComp /\ [][NextRestore]_vars

\* ------------------------------------------------------------ edit runs
\* two prompts are queued; they are loaded, given an attachment at the end of
\* their text, and committed
InitEdit == InitNav /\ Len(queuedPrompts) = 2

NextEdit ==
  \/ \E direction \in {-1, 1} : editQueued(direction)
  \/ pasteImage(Len(promptInput))
  \/ InputClear
  \/ Submit

SpecEdit == InitEdit /\ [][NextEdit]_vars

\* ------------------------------------------------------------ drain runs
\* one conversation stays active, its gate stays open and no queued entry is
\* loaded for editing: prompts are typed, queued and sent, the agent's status
\* changes and the sends settle
InitDrain == Init /\ sessionID \in Sessions

NextDrain ==
  \/ DispatchEffect
  \/ \E i \in 1..Len(pending), ok \in BOOLEAN : SendSettled(i, ok)
  \/ \E t \in StatusTypes : StatusChange(t)
  \/ \E value \in Drafts : ContentChange(value)
  \/ \E m \in {"normal", "shell"} : SetMode(m)
  \/ Submit
  \/ queueAtEndOfLoop

\* the effect runs whenever its conditions hold; every send settles; the agent
\* is idle again after every turn
SpecDrain ==
  /\ InitDrain
  /\ [][NextDrain]_vars
  /\ WF_vars(DispatchEffect)
  /\ WF_vars(\E i \in 1..Len(pending), ok \in BOOLEAN : SendSettled(i, ok))
  /\ WF_vars(StatusChange("idle"))

\* n letters
letters(n) == [i \in 1..n |-> "a"]

\* ------------------------------------------------------------ paste
\* the thresholds of the paste summary
PasteLines == 3
PasteChars == 150

\* \s of String.prototype.trim and of the regular expressions
IsBlank(c) == c \in { " ", "\n", "\t", "\r" }

\* event.text.replace(/\r\n/g, "\n").replace(/\r/g, "\n")
normalizeLineEndings(s) ==
  SelectSeq([i \in 1..Len(s) |->
               IF s[i] # "\r" THEN s[i]
               ELSE IF i < Len(s) /\ s[i + 1] = "\n" THEN "" ELSE "\n"],
            LAMBDA c : c # "")

\* normalizedText.trim()
trimBlank(s) ==
  LET inked == { i \in 1..Len(s) : ~IsBlank(s[i]) }
  IN IF inked = {} THEN <<>>
     ELSE SubSeq(s, CHOOSE i \in inked : \A j \in 1..(i - 1) : IsBlank(s[j]),
                    CHOOSE i \in inked : \A j \in (i + 1)..Len(s) : IsBlank(s[j]))

\* (pastedContent.match(/\n/g)?.length ?? 0) + 1
lineCount(s) == Cardinality({ i \in 1..Len(s) : s[i] = "\n" }) + 1

\* the summary test with the length threshold only
summarizedByLengthOnly(pastedContent, disablePasteSummary) ==
  /\ Len(pastedContent) > PasteChars
  /\ ~disablePasteSummary

\* whether onPaste collapses pastedContent into a placeholder
summarized(pastedContent, disablePasteSummary) ==
  /\ lineCount(pastedContent) >= PasteLines \/ Len(pastedContent) > PasteChars
  /\ ~disablePasteSummary

\* the textarea's own handling of a paste the handler did not prevent: the text
\* goes in at the cursor, which stands at the end of the draft, so that the
\* extmarks (all of which end at or before it) stay where they are. The draft
\* stays within MaxBuffer unless the pasted text is the first thing in it.
pasteVerbatim(text) ==
  /\ promptInput = <<>> \/ Len(promptInput) + Len(text) <= MaxBuffer
  /\ promptInput' = insertText(promptInput, Len(promptInput), text)
  /\ LET synced == syncExtmarksWithPromptParts(extmarks, extmarkToPartIndex, parts)
     IN /\ parts' = synced.parts
        /\ extmarkToPartIndex' = synced.extmarkToPartIndex
  /\ UNCHANGED << extmarks, nextExtmark >>
  /\ call' = NoCall
  /\ toast' = NoToast
  /\ UNCHANGED << sessionID, status, mode, interrupt, timers, proc, queuedPrompts,
                  sendingQueuedPrompt, queuedEditID, queuedCursor, queueGate,
                  nextID, pending, creating, dispatched, origin, loadedID >>

\* event.preventDefault() with nothing pasted in its place, or a paste command
\* that finds no image
pastePrevented ==
  /\ call' = NoCall
  /\ toast' = NoToast
  /\ UNCHANGED << sessionID, status, promptInput, mode, interrupt, timers, proc,
                  queuedPrompts, sendingQueuedPrompt, queuedEditID, queuedCursor,
                  queueGate, nextID, pending, creating, dispatched, origin,
                  loadedID >>
  /\ UNCHANGED composition

\* the content Filesystem.readText delivers for a pasted path of an SVG file
SvgContent == << "<", "s", ">" >>

\* what the file system makes of the pasted text taken as a path: mime is what
\* Filesystem.mimeType tells ("svg" for image/svg+xml, "image" for any other
\* image/*, "none" otherwise or for a URL), readText and readArrayBuffer whether
\* the read delivers a non-empty content; readText is asked of an SVG file
\* only, and a file that can be read as text can be read as bytes
PasteFiles ==
  { f \in [mime : {"none", "svg", "image"}, readText : BOOLEAN,
           readArrayBuffer : BOOLEAN] :
      /\ f.mime = "none" => ~f.readText /\ ~f.readArrayBuffer
      /\ f.mime = "image" => ~f.readText
      /\ f.readText => f.readArrayBuffer }

\* what is pasted: one line, two lines, three lines, three lines with carriage
\* returns, one line followed by line breaks, at and over the length
\* threshold, and a blank
PasteTexts ==
  { << "a" >>,
    << "a", "\n", "b" >>,
    << "a", "\n", "b", "\n", "c" >>,
    << "a", "\r", "\n", "b", "\r", "c" >>,
    << "a", "\n", "\n" >>,
    letters(PasteChars),
    letters(PasteChars + 1),
    << " " >> }

\* normalizedText.trim() of every text that is pasted, computed once
pastedContentOf ==
  [text \in PasteTexts |-> trimBlank(normalizeLineEndings(text))] @@ << >>

\* the prompt.paste command: clipboardImage tells whether Clipboard.read
\* delivers an image
promptPaste(clipboardImage) ==
  /\ Quiescent
  /\ IF clipboardImage THEN pasteImage(Len(promptInput)) ELSE pastePrevented

\* onPaste: text is event.text, file what the file system makes of it as a
\* path. A blank text is left to the textarea; the prompt.paste command that
\* is triggered for it reads the clipboard afterwards (promptPaste).
onPaste(text, file, disablePasteSummary) ==
  /\ Quiescent
  /\ LET pastedContent == pastedContentOf[text]
         currentOffset == Len(promptInput)
     IN IF pastedContent = <<>>
        THEN pasteVerbatim(text)
        ELSE IF file.mime = "svg" /\ file.readText
        THEN pasteText(SvgContent, << "S" >>, currentOffset)
        ELSE IF file.mime # "none" /\ file.readArrayBuffer
        THEN pasteImage(currentOffset)
        ELSE IF summarized(pastedContent, disablePasteSummary)
        THEN pasteText(pastedContent,
                       << "P", Digit(lineCount(pastedContent)) >>, currentOffset)
        ELSE IF file.mime # "none" THEN pastePrevented
        ELSE pasteVerbatim(text)

NextPaste ==
  \/ \E text \in PasteTexts, file \in PasteFiles, disablePasteSummary \in BOOLEAN :
       onPaste(text, file, disablePasteSummary)
  \/ \E clipboardImage \in BOOLEAN : promptPaste(clipboardImage)
  \/ InputClear

SpecPaste == InitComp /\ [][NextPaste]_vars

\* ------------------------------------------------------------ queue preview
\* the widths queuedPreview works with
PreviewWidth == 80
PreviewKeep == 77

\* \s of the regular expression
IsWhitespace(c) == c \in { " ", "\n", "\t" }

\* inputText.replace(/\s+/g, " ")
collapseWhitespace(s) ==
  LET kept == SelectSeq([i \in 1..Len(s) |-> i],
                        LAMBDA i : \/ ~IsWhitespace(s[i])
                                   \/ i = Len(s)
                                   \/ ~IsWhitespace(s[i + 1]))
  IN [k \in 1..Len(kept) |->
        IF IsWhitespace(s[kept[k]]) THEN " " ELSE s[kept[k]]]

\* queuedPreview cutting at PreviewWidth and appending the dots
queuedPreviewCutsAtWidth(inputText) ==
  LET oneLine == trim(collapseWhitespace(inputText))
  IN IF Len(oneLine) <= PreviewWidth THEN oneLine
     ELSE SubSeq(oneLine, 1, PreviewWidth) \o << ".", ".", "." >>

\* queuedPreview(inputText)
queuedPreview(inputText) ==
  LET oneLine == trim(collapseWhitespace(inputText))
  IN IF Len(oneLine) <= PreviewWidth THEN oneLine
     ELSE SubSeq(oneLine, 1, PreviewKeep) \o << ".", ".", "." >>

\* the strip under the input: the previews of the first two entries of the
\* active session's queue
queuedPreviewStrip ==
  [i \in 1..(IF Len(queuedPromptsForSession) > 2 THEN 2
             ELSE Len(queuedPromptsForSession)) |->
     queuedPreview(queuedPromptsForSession[i].inputText)]

\* the drafts of the preview runs: short, exactly as wide as the strip, one
\* longer, and texts with line breaks, doubled blanks and blanks at the ends
PreviewTexts ==
  { letters(3),
    letters(PreviewWidth),
    letters(PreviewWidth + 1),
    << "a", "\n", "\n", "b" >>,
    letters(PreviewKeep) \o << " ", " " >> \o letters(3),
    letters(PreviewWidth) \o << " " >> }

\* a session with nothing queued yet; its agent turns busy and stays so
InitPreview == InitDrain

NextPreview ==
  \/ \E value \in PreviewTexts : ContentChange(value)
  \/ InputClear
  \/ queueAtEndOfLoop
  \/ \E direction \in {-1, 1} : editQueued(direction)
  \/ StatusChange("busy")
  \/ Submit

SpecPreview == InitPreview /\ [][NextPreview]_vars

\* ------------------------------------------------------------ timed interrupts
\* the delay of setTimeout(() => setStore("interrupt", 0), 5000), in seconds
TimerDelay == 5
\* setTimeout callbacks pending at once
MaxTimers == 3

\* in these runs timers holds the pending callbacks, oldest first: `left` is the
\* time until the callback runs, `count` the value of store.interrupt the
\* interrupt that started it left behind
InitTimer ==
  \E sid \in Sessions :
    /\ sessionID = sid
    /\ status = "busy"
    /\ promptInput = <<>>
    /\ mode = "normal"
    /\ interrupt = 0
    /\ timers = <<>>
    /\ proc = NoProc
    /\ queuedPrompts = <<>>
    /\ sendingQueuedPrompt = FALSE
    /\ queuedEditID = NoID
    /\ queuedCursor = NoCursor
    /\ queueGate = "open"
    /\ nextID = 1
    /\ pending = <<>>
    /\ creating = <<>>
    /\ call = NoCall
    /\ toast = NoToast
    /\ dispatched = <<>>
    /\ origin = <<>>
    /\ loadedID = NoID
    /\ parts = <<>>
    /\ extmarks = <<>>
    /\ extmarkToPartIndex = NoMap
    /\ nextExtmark = 1

\* session.interrupt, its callback due after TimerDelay
InterruptTimed ==
  /\ mode = "shell" \/ Len(timers) < MaxTimers
  /\ interruptWith(Append(timers,
                          [left |-> TimerDelay,
                           count |-> IF interrupt + 1 >= 2 THEN 0 ELSE 1]))

\* one second passes; a callback that is due runs first
Tick ==
  /\ Quiescent
  /\ timers # <<>>
  /\ \A i \in 1..Len(timers) : timers[i].left > 0
  /\ timers' = [i \in 1..Len(timers) |->
                  [timers[i] EXCEPT !.left = timers[i].left - 1]]
  /\ call' = NoCall
  /\ toast' = NoToast
  /\ UNCHANGED << sessionID, status, promptInput, mode, interrupt,
                  queuedPrompts, sendingQueuedPrompt, queuedEditID,
                  queuedCursor, queueGate, nextID, pending, creating,
                  dispatched, origin, loadedID, proc >>
  /\ UNCHANGED composition

\* the oldest setTimeout callback runs: setStore("interrupt", 0)
TimerFires ==
  /\ Quiescent
  /\ timers # <<>>
  /\ Head(timers).left = 0
  /\ timers' = Tail(timers)
  /\ interrupt' = 0
  /\ call' = NoCall
  /\ toast' = NoToast
  /\ UNCHANGED << sessionID, status, promptInput, mode, queuedPrompts,
                  sendingQueuedPrompt, queuedEditID, queuedCursor, queueGate,
                  nextID, pending, creating, dispatched, origin, loadedID, proc >>
  /\ UNCHANGED composition

NextTimer ==
  \/ InterruptTimed
  \/ Tick
  \/ TimerFires
  \/ GateEffect
  \/ \E t \in StatusTypes : StatusChange(t)
  \/ \E m \in {"normal", "shell"} : SetMode(m)
  \/ \E value \in Drafts : ContentChange(value)
  \/ Submit

SpecTimer == InitTimer /\ [][NextTimer]_vars

\* ------------------------------------------------------------ process
\* chunks a child writes to one stream
MaxChunks == 1

\* the exit codes of the children
ExitCodes == { 0, 1, 3, 7 }

\* the signals a caller configures: a child may handle these or ignore them
KillSignals == { "SIGTERM", "SIGINT" }

\* Process.run options: cmd, nothrow, kill and timeout (the empty sequence when
\* undefined) and abort: "none" without a signal, "idle" with a signal that
\* has not fired, "aborted" with one that has
RunOptions ==
  [cmd : { <<>>, << "node" >> }, nothrow : BOOLEAN,
   kill : { <<>> } \cup { << k >> : k \in KillSignals },
   timeout : { <<>>, << 0 >>, << 25 >> },
   abort : { "none", "idle", "aborted" }]

\* everything but the child process
promptVars ==
  << sessionID, status, promptInput, mode, interrupt, timers, queuedPrompts,
     sendingQueuedPrompt, queuedEditID, queuedCursor, queueGate, nextID,
     pending, creating, call, toast, dispatched, origin, loadedID, parts,
     extmarks, extmarkToPartIndex, nextExtmark >>

\* Process.run up to its await: spawn throws for an empty command or a signal
\* that has fired, otherwise the child is launched and the abort listener added
run(opts) ==
  /\ proc.state = "none"
  /\ proc' =
       IF opts.cmd = <<>> \/ opts.abort = "aborted"
       THEN [proc EXCEPT !.state = "thrown", !.abort = opts.abort,
                         !.result = [NoResult EXCEPT !.kind = "error"]]
       ELSE [proc EXCEPT !.state = "running", !.nothrow = opts.nothrow,
                         !.kill = opts.kill, !.timeout = opts.timeout,
                         !.abort = opts.abort,
                         !.listener = (opts.abort # "none")]
  /\ UNCHANGED promptVars

\* opts.kill ?? "SIGTERM"
killSignal(p) == IF p.kill = <<>> THEN "SIGTERM" ELSE p.kill[1]

\* opts.timeout ?? 5_000
ms(p) == IF p.timeout = <<>> THEN 5000 ELSE p.timeout[1]

\* the abort listener of a process that sends SIGTERM whatever is configured
abortSendsTerm(p) ==
  IF p.closed THEN p
  ELSE IF p.exitCode # NoCode \/ p.signalCode # NoSignal THEN p
  ELSE [p EXCEPT !.closed = TRUE,
                 !.signals = Append(p.signals, "SIGTERM"),
                 !.timer = IF ms(p) <= 0 THEN p.timer ELSE "armed"]

\* const abort = () => { ... }
abort(p) ==
  IF p.closed THEN p
  ELSE IF p.exitCode # NoCode \/ p.signalCode # NoSignal THEN p
  ELSE [p EXCEPT !.closed = TRUE,
                 !.signals = Append(p.signals, killSignal(p)),
                 !.timer = IF ms(p) <= 0 THEN p.timer ELSE "armed"]

\* the abort signal fires: the listener, added once, runs if it is still there
AbortFires ==
  /\ proc.abort = "idle"
  /\ proc' = IF proc.listener
             THEN [abort(proc) EXCEPT !.abort = "aborted", !.listener = FALSE]
             ELSE [proc EXCEPT !.abort = "aborted"]
  /\ UNCHANGED promptVars

\* timer = setTimeout(() => proc.kill("SIGKILL"), ms)
TimerElapses ==
  /\ proc.timer = "armed"
  /\ proc' = [proc EXCEPT !.timer = "fired",
                          !.signals = Append(proc.signals, "SIGKILL")]
  /\ UNCHANGED promptVars

\* the child writes a chunk to its stdout or stderr pipe
ChildWrite(stream, chunk) ==
  /\ proc.state = "running"
  /\ Len(proc[stream]) < MaxChunks
  /\ proc' = [proc EXCEPT ![stream] = Append(proc[stream], chunk)]
  /\ UNCHANGED promptVars

\* const done = () => { ... }
done(p) ==
  [p EXCEPT !.listener = FALSE,
            !.timer = IF p.timer = "armed" THEN "cleared" ELSE p.timer]

\* resolve(code ?? (signal ? 1 : 0))
exitedWith(code, signal) ==
  IF code # NoCode THEN code ELSE IF signal # NoSignal THEN 1 ELSE 0

\* proc.once("exit", ...): the child ends by itself with a code, or is ended by
\* a signal that was sent to it
ChildExit(code, signal) ==
  /\ proc.state = "running"
  /\ \/ code \in ExitCodes /\ signal = NoSignal
     \/ /\ code = NoCode
        /\ \E i \in 1..Len(proc.signals) : proc.signals[i] = signal
  /\ proc' = [done(proc) EXCEPT !.state = "exited", !.exitCode = code,
                                !.signalCode = signal,
                                !.exited = << exitedWith(code, signal) >>]
  /\ UNCHANGED promptVars

\* proc.once("error", ...): the child could not be launched
ChildError ==
  /\ proc.state = "running"
  /\ proc.signals = <<>>
  /\ proc.stdout = <<>> /\ proc.stderr = <<>>
  /\ proc' = [done(proc) EXCEPT !.state = "error"]
  /\ UNCHANGED promptVars

\* the outcome of run that throws whenever the code is not 0
outcomeIgnoringNothrow(p) ==
  LET out == [code |-> p.exited[1], stdout |-> p.stdout, stderr |-> p.stderr]
  IN IF out.code = 0
     THEN [kind |-> "resolved", code |-> out.code, stdout |-> out.stdout,
           stderr |-> out.stderr]
     ELSE [kind |-> "RunFailedError", code |-> out.code, stdout |-> out.stdout,
           stderr |-> out.stderr]

\* if (out.code === 0 || opts.nothrow) return out; throw new RunFailedError(...)
outcome(p) ==
  LET out == [code |-> p.exited[1], stdout |-> p.stdout, stderr |-> p.stderr]
  IN IF out.code = 0 \/ p.nothrow
     THEN [kind |-> "resolved", code |-> out.code, stdout |-> out.stdout,
           stderr |-> out.stderr]
     ELSE [kind |-> "RunFailedError", code |-> out.code, stdout |-> out.stdout,
           stderr |-> out.stderr]

\* Process.run after its await: the exit and both streams are in
Settle ==
  /\ proc.state \in { "exited", "error" }
  /\ proc.result = NoResult
  /\ proc' = [proc EXCEPT !.result =
                IF proc.state = "error" THEN [NoResult EXCEPT !.kind = "error"]
                ELSE outcome(proc)]
  /\ UNCHANGED promptVars

InitProcess == InitComp /\ sessionID = "s1"

\* the child is ended by SIGKILL
Killed == ChildExit(NoCode, "SIGKILL")

NextProcess ==
  \/ \E opts \in RunOptions : run(opts)
  \/ AbortFires
  \/ TimerElapses
  \/ \E stream \in { "stdout", "stderr" }, chunk \in { "out", "err" } :
       ChildWrite(stream, chunk)
  \/ \E code \in ExitCodes \cup { NoCode },
        signal \in KillSignals \cup { "SIGKILL", NoSignal } :
       ChildExit(code, signal)
  \/ ChildError
  \/ Settle

\* the timer runs out, the kernel ends a child that was sent SIGKILL, and the
\* streams of a child that has ended are read to their end
SpecProcess ==
  /\ InitProcess
  /\ [][NextProcess]_vars
  /\ WF_vars(TimerElapses)
  /\ WF_vars(Killed)
  /\ WF_vars(Settle)

\* ------------------------------------------------------------ step predicates
\* the step hands a queued prompt to sendPrompt
DispatchStep == Len(dispatched') = Len(dispatched) + 1

\* the step issues a direct send (prompt, command or shell, no queued id)
DirectSendStep == call'.kind \in {"prompt", "command", "shell"} /\ call'.id = NoID

\* the step is a confirmed interrupt: the abort call goes out
ConfirmedInterruptStep == call'.kind = "abort"

\* the step commits an in-place edit
EditCommitStep == toast' = "Queued message updated"

\* the step is the rejection of a queued send
RejectStep == toast' = "Failed to send queued prompt"

\* ------------------------------------------------------------ claims
\* C1 part: in every state, per conversation, the ids handed to sendPrompt are
\* ascending (ids are assigned in queueing order), every entry still queued for a
\* conversation is younger than everything already sent for it, and the queue
\* holds its entries in queueing order.
FifoOrder ==
  /\ \A i, j \in 1..Len(dispatched) :
       (i < j /\ dispatched[i].sessionID = dispatched[j].sessionID)
         => dispatched[i].id < dispatched[j].id
  /\ \A i \in 1..Len(dispatched), k \in 1..Len(queuedPrompts) :
       dispatched[i].sessionID = queuedPrompts[k].sessionID
         => dispatched[i].id < queuedPrompts[k].id
  /\ \A k, l \in 1..Len(queuedPrompts) :
       k < l => queuedPrompts[k].id < queuedPrompts[l].id

\* C1 part: a dispatch sends the text its entry holds in the queue at that moment.
DispatchSendsQueuedText ==
  DispatchStep =>
    \E k \in 1..Len(queuedPrompts) :
      /\ queuedPrompts[k].id = call'.id
      /\ call'.inputText = queuedPrompts[k].inputText
      /\ call'.id = dispatched'[Len(dispatched')].id

\* C1 part: an in-place edit keeps every entry at its position and writes the
\* draft into the edited entry only.
EditKeepsPosition ==
  EditCommitStep =>
    /\ Len(queuedPrompts') = Len(queuedPrompts)
    /\ \A k \in 1..Len(queuedPrompts) :
         /\ queuedPrompts'[k].id = queuedPrompts[k].id
         /\ queuedPrompts'[k].inputText =
              IF queuedPrompts[k].id = queuedEditID
              THEN promptInput ELSE queuedPrompts[k].inputText

\* C1: for each conversation the queued messages are handed to the send call in
\* the order they were enqueued, whatever in-place edits are interleaved; an
\* edited entry is sent with its edited text at its original position.
C1_DispatchOrderIsInsertionOrder ==
  []FifoOrder /\ [][DispatchSendsQueuedText /\ EditKeepsPosition]_vars

\* a later entry was edited in place after an earlier one of the same
\* conversation was sent, and still waits behind it
C1_Witness ==
  /\ toast = "Queued message updated"
  /\ Len(dispatched) = 1
  /\ Len(queuedPrompts) = 1
  /\ queuedPrompts[1].sessionID = dispatched[1].sessionID
  /\ queuedPrompts[1].inputText = <<"b">>

\* C2: single-flight: at most one queued send is outstanding at any time.
C2_SingleFlight == Len(pending) <= 1

\* a send is in flight while a second message is waiting and every other
\* dispatcher condition holds
C2_Witness ==
  /\ Len(pending) = 1
  /\ sendingQueuedPrompt
  /\ queueGate = "open"
  /\ status = "idle"
  /\ queuedEditID = NoID
  /\ queuedPromptsForSession # <<>>

\* C3: a queued message is popped and sent only from a state where the gate is
\* open, the agent is idle, no queued item is being edited and no dispatch is in
\* flight; in particular never while the gate is paused, wait_busy or wait_idle.
C3_DispatchOnlyWhenAdmitted ==
  [][DispatchStep =>
       /\ queueGate = "open"
       /\ status = "idle"
       /\ queuedEditID = NoID
       /\ ~sendingQueuedPrompt
       /\ pending = <<>>]_vars

\* a queued message has just been sent
C3_Witness == call.kind = "prompt" /\ call.id # NoID

\* C4: gate lifecycle: a confirmed interrupt pauses the gate, a direct submit
\* while paused moves it to wait_busy, from wait_busy a non-idle agent moves it to
\* wait_idle, from wait_idle an idle agent reopens it, each as the very next
\* change, and without a conversation switch or a further confirmed interrupt
\* the gate moves only along open, paused, wait_busy, wait_idle, open.
C4_GateLifecycle ==
  [][/\ ConfirmedInterruptStep => queueGate' = "paused"
     /\ (queueGate = "paused" /\ DirectSendStep) => queueGate' = "wait_busy"
     /\ (queueGate = "wait_busy" /\ status # "idle") => queueGate' = "wait_idle"
     /\ (queueGate = "wait_idle" /\ status = "idle") => queueGate' = "open"
     /\ (queueGate' # queueGate /\ sessionID' = sessionID /\ ~ConfirmedInterruptStep)
          => << queueGate, queueGate' >> \in
               { << "paused", "wait_busy" >>, << "wait_busy", "wait_idle" >>,
                 << "wait_idle", "open" >> }]_vars

\* the gate has gone open, paused, wait_busy, wait_idle and the agent is idle
\* again: the reopening is the next step
C4_Witness == queueGate = "wait_idle" /\ status = "idle"

\* C5: the gate changes only by: any -> open on a conversation switch, any ->
\* paused on a confirmed interrupt, paused -> wait_busy on a direct submit,
\* wait_busy -> wait_idle with the agent non-idle, wait_idle -> open with the
\* agent idle.
C5_GateTransitions ==
  [][queueGate' # queueGate =>
       \/ queueGate' = "open" /\ sessionID' # sessionID
       \/ queueGate' = "paused" /\ ConfirmedInterruptStep
       \/ queueGate = "paused" /\ queueGate' = "wait_busy" /\ DirectSendStep
       \/ queueGate = "wait_busy" /\ queueGate' = "wait_idle" /\ status # "idle"
       \/ queueGate = "wait_idle" /\ queueGate' = "open" /\ status = "idle"]_vars

\* a direct submit has just moved the paused gate to wait_busy
C5_Witness ==
  queueGate = "wait_busy" /\ call.kind = "prompt" /\ call.id = NoID

\* C6: a conversation switch opens the gate whatever it was, and the editing
\* marker and the cursor are cleared: after the switch the marker is unset or
\* points at no entry of the new conversation, and then the next step clears it
\* together with the cursor.
C6_SwitchResets ==
  [][/\ sessionID' # sessionID =>
          /\ queueGate' = "open"
          /\ queuedEditID' = NoID \/ markerStale'
     /\ markerStale => (queuedEditID' = NoID /\ queuedCursor' = NoCursor)]_vars

\* the conversation was switched while an entry was loaded for editing
C6_Witness == markerStale /\ queueGate = "open" /\ queuedCursor # NoCursor

\* C7: a conversation switch leaves the dispatch in flight alone, and a queued
\* send is addressed to the conversation its message was queued in.
C7_SwitchKeepsDispatch ==
  /\ [](\A i \in 1..Len(pending) : pending[i].sessionID = origin[pending[i].id])
  /\ [][/\ sessionID' # sessionID =>
             (pending' = pending /\ sendingQueuedPrompt' = sendingQueuedPrompt)
        /\ DispatchStep => call'.sessionID = origin[call'.id]
        /\ Len(pending') < Len(pending) => ~sendingQueuedPrompt']_vars

\* a dispatch is in flight for a conversation that is no longer the active one
C7_Witness ==
  /\ Len(pending) = 1
  /\ sendingQueuedPrompt
  /\ pending[1].sessionID # sessionID

\* C8 as claimed: move(-1) walks the newest-first list from newest to oldest and
\* wraps to newest: from unselected it selects index 0, from index i it selects
\* index (i + 1) mod n.
C8_NavigatorNewestFirst ==
  [][editQueued(-1) =>
       queuedCursor' = IF queuedCursor = NoCursor THEN 0
                       ELSE (queuedCursor + 1) % Len(queuedPromptsForSessionNewest)]_vars

\* C9: when a queued send is rejected the popped message is not put back, the
\* gate is unchanged and the single-flight flag is cleared; and whenever the
\* dispatcher's conditions hold the head of the queue is the next thing sent.
C9_RejectionDropsMessage ==
  [][/\ RejectStep =>
          /\ queuedPrompts' = queuedPrompts
          /\ queueGate' = queueGate
          /\ ~sendingQueuedPrompt'
          /\ Len(pending') = Len(pending) - 1
     /\ (/\ queueGate = "open" /\ status = "idle" /\ queuedEditID = NoID
         /\ ~sendingQueuedPrompt /\ queuedPromptsForSession # <<>>) =>
          /\ DispatchStep
          /\ call'.id = queuedPromptsForSession[1].id
          /\ call'.inputText = queuedPromptsForSession[1].inputText]_vars

\* a send has just been rejected and the new head is ready to go
C9_Witness ==
  /\ toast = "Failed to send queued prompt"
  /\ queueGate = "open"
  /\ status = "idle"
  /\ queuedEditID = NoID
  /\ queuedPromptsForSession # <<>>

\* the draft was loaded from a queued entry that is no longer in the queue
StaleEdit ==
  /\ loadedID # NoID
  /\ \A k \in 1..Len(queuedPrompts) : queuedPrompts[k].id # loadedID

MarkerAbsent == queuedEditID # NoID /\ editingQueuedPrompt = <<>>

\* C11: at most one queued message is marked as being edited, and a marker whose
\* entry is not in the active conversation's queue is cleared (with the cursor)
\* by the very next step, before anything is sent or the queue changes.
C11_EditMarkerClears ==
  /\ [](Cardinality({k \in 1..Len(queuedPrompts) :
                       queuedPrompts[k].id = queuedEditID}) <= 1)
  /\ [][MarkerAbsent =>
          /\ queuedEditID' = NoID
          /\ queuedCursor' = NoCursor
          /\ queuedPrompts' = queuedPrompts
          /\ call' = NoCall]_vars

\* the marked entry has left the active conversation's queue while the agent of
\* the conversation now shown is busy
C11_Witness == MarkerAbsent /\ status = "busy" /\ Len(queuedPrompts) = 2

\* the step is a submit or a queue request made while no model is selected
NoModelStep ==
  /\ Quiescent
  /\ \E agent \in Agents :
       \/ \E isCommand \in BOOLEAN : submitWith(NoModel, agent, isCommand)
       \/ queueAtEndOfLoopWith(NoModel, agent)

\* the calls that send a message
MessageKinds == {"prompt", "command", "shell"}

\* C12 as claimed: with no model selected at submit or queue time no message is
\* sent, nothing is queued, and the gate and the draft are left as they were
\* (stated for drafts that are messages, not local commands).
C12_NoModelBlocksAlways ==
  [][(/\ NoModelStep
      /\ ~ \E c \in LocalCommands : startsWith(trim(promptInput), c)) =>
       /\ call'.kind \notin MessageKinds
       /\ queuedPrompts' = queuedPrompts
       /\ queueGate' = queueGate
       /\ promptInput' = promptInput]_vars

\* C12 amended: with no model selected at submit or queue time, unless the
\* submit commits an in-place edit of a queued entry or runs a local command
\* (both are handled before the model check), no message is sent, nothing is
\* queued, no session is created, and the gate and the draft are left as they
\* were; the provider warning is shown unless the draft is an exit word.
C12_NoModelBlocks ==
  [][(/\ NoModelStep
      /\ editingQueuedPrompt = <<>>
      /\ ~ \E c \in LocalCommands : startsWith(trim(promptInput), c)) =>
       /\ call'.kind \notin MessageKinds
       /\ queuedPrompts' = queuedPrompts
       /\ creating' = creating
       /\ queueGate' = queueGate
       /\ promptInput' = promptInput
       /\ trim(promptInput) \notin ExitWords =>
            toast' = "Connect a provider to send prompts"]_vars

\* a queue request made while the agent is busy has just been blocked for want
\* of a model
C12_Witness ==
  /\ toast = "Connect a provider to send prompts"
  /\ status = "busy"
  /\ mode = "normal"
  /\ promptInput = <<"a">>
  /\ queuedPrompts = <<>>

\* C13: an in-place edit replaces only the text and the parts of the entry with
\* the matching id, by the draft's resolved text and its non-text parts; that
\* entry's id, conversation, agent, model, variant and position, every other
\* entry and the queue length are unchanged.
C13_EditReplacesTextAndParts ==
  [][EditCommitStep =>
       /\ Len(queuedPrompts') = Len(queuedPrompts)
       /\ \A k \in 1..Len(queuedPrompts) :
            IF queuedPrompts[k].id = queuedEditID
            THEN /\ queuedPrompts'[k].inputText = resolvePromptInput.inputText
                 /\ queuedPrompts'[k].parts = nonText(parts)
                 /\ queuedPrompts'[k].id = queuedPrompts[k].id
                 /\ queuedPrompts'[k].sessionID = queuedPrompts[k].sessionID
                 /\ queuedPrompts'[k].agent = queuedPrompts[k].agent
                 /\ queuedPrompts'[k].model = queuedPrompts[k].model
                 /\ queuedPrompts'[k].variant = queuedPrompts[k].variant
            ELSE queuedPrompts'[k] = queuedPrompts[k]]_vars

\* an entry that is not the last of its queue has just been committed with an
\* attachment it did not have before
C13_Witness ==
  /\ toast = "Queued message updated"
  /\ Len(queuedPrompts) >= 2
  /\ queuedPrompts[1].parts # <<>>
  /\ queuedPrompts[2].parts = <<>>

\* C14: while the conversation stays active with the gate open and nothing
\* loaded for editing, every send settles and the agent is idle again after each
\* turn, every queued message is eventually handed to the send call, and the
\* queue is empty again and again.
C14_QueueDrains ==
  /\ \A id \in 1..MaxMsgs :
       (\E k \in 1..Len(queuedPrompts) : queuedPrompts[k].id = id)
         ~> (\E i \in 1..Len(dispatched) : dispatched[i].id = id)
  /\ []<>(queuedPrompts = <<>>)

\* two queued messages have been sent one after the other and the queue is
\* empty
C14_Witness ==
  /\ Len(dispatched) = 2
  /\ queuedPrompts = <<>>
  /\ pending = <<>>
  /\ queueGate = "open"
  /\ nextID = 3

\* the extmarks (by position in extmarks) that stand for a collapsed text
TextMarks ==
  { i \in 1..Len(extmarks) :
      /\ extmarks[i].id \in DOMAIN extmarkToPartIndex
      /\ extmarkToPartIndex[extmarks[i].id] < Len(parts)
      /\ parts[extmarkToPartIndex[extmarks[i].id] + 1].type = "text"
      /\ parts[extmarkToPartIndex[extmarks[i].id] + 1].text # <<>> }

\* the text extmarks lie within the buffer and no two of them overlap
TextMarksDisjoint ==
  /\ \A i \in TextMarks :
       extmarks[i].start < extmarks[i].end /\ extmarks[i].end <= Len(promptInput)
  /\ \A i, j \in TextMarks :
       i # j => (extmarks[i].end <= extmarks[j].start
                 \/ extmarks[j].end <= extmarks[i].start)

\* the buffer from offset pos on, with every text extmark's range replaced by
\* the full text of its part, read from left to right
RECURSIVE Expanded(_)
Expanded(pos) ==
  IF pos >= Len(promptInput) THEN <<>>
  ELSE IF \E i \in TextMarks : extmarks[i].start = pos
  THEN LET i == CHOOSE i \in TextMarks : extmarks[i].start = pos
       IN parts[extmarkToPartIndex[extmarks[i].id] + 1].text
            \o Expanded(extmarks[i].end)
  ELSE << promptInput[pos + 1] >> \o Expanded(pos + 1)

\* the parts that are not of type text, in the order they have in parts
NonTextParts == SelectSeq(parts, LAMBDA part : part.type # "text")

\* C15: resolvePromptInput returns exactly the non-text parts, and, when the text
\* extmarks are disjoint, the buffer with every text extmark's range replaced by
\* the full text of its part, whatever the order the extmarks were created in.
C15_ResolveExpands ==
  /\ resolvePromptInput.nonTextParts = NonTextParts
  /\ TextMarksDisjoint => resolvePromptInput.inputText = Expanded(0)

\* two collapsed pastes are in the buffer, the one created later standing
\* before the other
C15_Witness ==
  /\ TextMarksDisjoint
  /\ Cardinality(TextMarks) = 2
  /\ Len(extmarks) = 2
  /\ extmarks[2].end <= extmarks[1].start

\* C16: a draft without text parts resolves to its buffer unchanged and to its
\* parts in their order.
C16_NoExpansionIdentity ==
  (\A i \in 1..Len(parts) : parts[i].type # "text") =>
    /\ resolvePromptInput.inputText = promptInput
    /\ resolvePromptInput.nonTextParts = parts

\* the draft holds an attachment with a live extmark and no collapsed paste
C16_Witness ==
  /\ Len(parts) >= 1
  /\ \A i \in 1..Len(parts) : parts[i].type = "file"
  /\ Len(extmarks) = Len(parts)
  /\ promptInput # <<>>

\* the step is a buffer edit, onContentChange with the extents the buffer
\* reports: the text changes, nothing is created, sent, queued, loaded or shown
EditStep ==
  /\ promptInput' # promptInput
  /\ nextExtmark' = nextExtmark
  /\ loadedID' = loadedID
  /\ queuedPrompts' = queuedPrompts
  /\ call' = NoCall
  /\ toast' = NoToast

\* the ids of the extmarks in a list
liveIDs(marks) == { marks[i].id : i \in 1..Len(marks) }

\* two parts are the same part, wherever their anchors are
samePart(p, q) ==
  p.type = q.type /\ p.text = q.text /\ p.source.value = q.source.value

\* C17: after a buffer edit the map holds live extmarks only, its indices are
\* exactly 0..n-1 with no two extmarks on the same index, parts holds exactly the
\* parts of the surviving extmarks, and these keep the order they had.
C17_SyncRebuildsDensely ==
  [][EditStep =>
       /\ DOMAIN extmarkToPartIndex' \subseteq liveIDs(extmarks')
       /\ \A a, b \in DOMAIN extmarkToPartIndex' :
            a # b => extmarkToPartIndex'[a] # extmarkToPartIndex'[b]
       /\ { extmarkToPartIndex'[a] : a \in DOMAIN extmarkToPartIndex' }
            = 0..(Len(parts') - 1)
       /\ Len(parts')
            = Cardinality(DOMAIN extmarkToPartIndex \cap liveIDs(extmarks'))
       /\ \A a \in DOMAIN extmarkToPartIndex' :
            /\ a \in DOMAIN extmarkToPartIndex
            /\ samePart(parts'[extmarkToPartIndex'[a] + 1],
                        parts[extmarkToPartIndex[a] + 1])
       /\ \A a, b \in DOMAIN extmarkToPartIndex' :
            extmarkToPartIndex[a] < extmarkToPartIndex[b]
              => extmarkToPartIndex'[a] < extmarkToPartIndex'[b]]_vars

\* of two parts the first lost its extmark in an edit; the second is now the
\* only part, at index 0
C17_Witness ==
  /\ nextExtmark = 3
  /\ Len(extmarks) = 1
  /\ extmarks[1].id = 2
  /\ Len(parts) = 1
  /\ extmarkToPartIndex[2] = 0

\* C18: when an edit destroys an extmark, its part is no longer in parts and the
\* extmark has no entry in the map; the parts of the surviving extmarks are kept.
C18_OrphanDropped ==
  [][EditStep =>
       \A a \in DOMAIN extmarkToPartIndex :
         IF a \in liveIDs(extmarks')
         THEN /\ a \in DOMAIN extmarkToPartIndex'
              /\ samePart(parts'[extmarkToPartIndex'[a] + 1],
                          parts[extmarkToPartIndex[a] + 1])
         ELSE /\ a \notin DOMAIN extmarkToPartIndex'
              /\ Len(parts') < Len(parts)
              /\ Len(parts') = Cardinality(liveIDs(extmarks'))]_vars

\* an attachment and a collapsed paste were in the draft; an edit destroyed the
\* extmark of the attachment, and the paste is the only part left
C18_Witness ==
  /\ nextExtmark = 3
  /\ Len(extmarks) = 1
  /\ Len(parts) = 1
  /\ parts[1].type = "text"
  /\ DOMAIN extmarkToPartIndex = { extmarks[1].id }
  /\ promptInput \in CompTexts

\* C19 as claimed: after an edit no two parts are anchored at the same range
\* (of extmarks that span identical ranges only the first created is kept).
C19_CoincidingDropped ==
  [][EditStep =>
       \A i, j \in 1..Len(parts') :
         i # j => << parts'[i].source.start, parts'[i].source.end >>
                    # << parts'[j].source.start, parts'[j].source.end >>]_vars

\* the step loads a queued prompt into the input
RestoreStep == \E direction \in {-1, 1} : editQueued(direction)

\* text occurs verbatim in buffer
occursIn(text, buffer) ==
  \E o \in 0..Len(buffer) : slice(buffer, o, o + Len(text)) = text

\* C20 as claimed: after a queued prompt is loaded, every recreated extmark
\* covers exactly the anchor text of its part in the new buffer, and no part is
\* kept whose anchor text does not occur in the buffer.
C20_RestoreCoversAnchors ==
  [][RestoreStep =>
       /\ \A i \in 1..Len(extmarks') :
            slice(promptInput', extmarks'[i].start, extmarks'[i].end)
              = parts'[extmarkToPartIndex'[extmarks'[i].id] + 1].source.value
       /\ \A k \in 1..Len(parts') :
            occursIn(parts'[k].source.value, promptInput')]_vars

\* the step is a paste: pasteText or pasteImage has created an extmark
PasteStep == nextExtmark' = nextExtmark + 1

\* C21: a paste inserts the virtual text followed by one separator at the
\* cursor, creates exactly one extmark over the virtual text (the separator
\* excluded), appends exactly one part carrying the payload at the end of parts
\* and maps the new extmark to that part's index; the parts that were there keep
\* their payload, order and map entries, and their anchors too wherever the
\* buffer reports their extmarks where they were.
C21_InsertAppendsOnePart ==
  [][PasteStep =>
       LET n == Len(parts')
           m == Len(extmarks')
           created == extmarks'[m]
           part == parts'[n]
       IN /\ m >= 1 /\ n >= 1
          /\ created.id = nextExtmark
          /\ created.id \notin liveIDs(extmarks)
          /\ liveIDs(extmarks') \subseteq liveIDs(extmarks) \cup { created.id }
          /\ promptInput' = insertText(promptInput, created.start,
                                       part.source.value \o << " " >>)
          /\ created.end = created.start + Len(part.source.value)
          /\ slice(promptInput', created.start, created.end) = part.source.value
          /\ part.source.start = created.start /\ part.source.end = created.end
          /\ part.type \in {"text", "file"}
          /\ part.type = "text" => part.text = << "x", "y" >>
          /\ extmarkToPartIndex'[created.id] = n - 1
          /\ DOMAIN extmarkToPartIndex' = liveIDs(extmarks')
          /\ \A a \in DOMAIN extmarkToPartIndex' \ { created.id } :
               /\ a \in DOMAIN extmarkToPartIndex
               /\ extmarkToPartIndex'[a] < n - 1
               /\ samePart(parts'[extmarkToPartIndex'[a] + 1],
                           parts[extmarkToPartIndex[a] + 1])
          /\ SubSeq(extmarks', 1, m - 1) = extmarks =>
               /\ SubSeq(parts', 1, n - 1) = parts
               /\ \A a \in DOMAIN extmarkToPartIndex :
                    extmarkToPartIndex'[a] = extmarkToPartIndex[a]]_vars

\* a collapsed paste was appended behind an attachment: two parts, the second
\* one the paste, anchored behind the first
C21_Witness ==
  /\ Len(parts) = 2
  /\ parts[1].type = "file"
  /\ parts[2].type = "text"
  /\ Len(extmarks) = 2
  /\ extmarkToPartIndex[extmarks[2].id] = 1
  /\ extmarks[1].end < extmarks[2].start
  /\ promptInput = << "I", "1", " ", "P", " " >>

\* the step is an interrupt that counts (not the one that leaves shell mode)
CountedInterruptStep == Len(timers') = Len(timers) + 1

\* the step is a setTimeout callback that finds the counter set
CounterResetStep == Len(timers') < Len(timers) /\ interrupt = 1

\* the latest interrupt was not confirmed and its callback is still to run:
\* less than TimerDelay has passed since
UnconfirmedPending ==
  /\ timers # <<>>
  /\ timers[Len(timers)].count = 1
  /\ timers[Len(timers)].left > 0

\* C22 as claimed: the counter an unconfirmed interrupt has set is reset when
\* TimerDelay has passed since that interrupt and not earlier; so an
\* interrupt that follows an unconfirmed one within TimerDelay sends the abort
\* and pauses the gate, and an interrupt that follows none does not.
C22_SecondInterruptConfirms ==
  [][/\ CounterResetStep => timers[Len(timers)].left = 0
     /\ CountedInterruptStep /\ UnconfirmedPending =>
          call'.kind = "abort" /\ queueGate' = "paused"
     /\ CountedInterruptStep
          /\ (timers = <<>> \/ timers[Len(timers)].count = 0) =>
          call'.kind # "abort" /\ queueGate' = queueGate]_vars

\* the step appends an entry to the queue
EnqueueStep == Len(queuedPrompts') = Len(queuedPrompts) + 1

\* the step empties a draft without sending, queueing or committing anything
ClearStep ==
  /\ promptInput # <<>>
  /\ promptInput' = <<>>
  /\ call' = NoCall
  /\ toast' = NoToast

\* C23: after a direct submit that is sent, a queue action that enqueues, an
\* in-place edit commit or a clear of the input, the draft is empty: no text,
\* no parts, no extmarks and no map entries.
C23_ClearedAfterHandOff ==
  [][DirectSendStep \/ EnqueueStep \/ EditCommitStep \/ ClearStep =>
       /\ promptInput' = <<>>
       /\ parts' = <<>>
       /\ extmarks' = <<>>
       /\ DOMAIN extmarkToPartIndex' = {}]_vars

\* a draft with a collapsed paste and an attachment has just been sent directly:
\* the call carries the expanded text and the draft is empty
C23_Witness ==
  /\ call.kind = "prompt"
  /\ call.id = NoID
  /\ call.inputText = << "x", "y", " ", "I", "1", " " >>
  /\ promptInput = <<>>
  /\ parts = <<>>

\* the dots queuedPreview ends a cut text with
Dots == << ".", ".", "." >>

\* a text without line breaks or tabs, doubled blanks or blanks at its ends
PlainLine(t) ==
  /\ \A i \in 1..Len(t) : t[i] \notin { "\n", "\t" }
  /\ \A i \in 1..(Len(t) - 1) : ~(t[i] = " " /\ t[i + 1] = " ")
  /\ t # <<>> => t[1] # " " /\ t[Len(t)] # " "

\* C24 as claimed: the preview of a queued text longer than 80 characters is its
\* first 80 characters followed by "...", and a text of at most 80 characters
\* is previewed unchanged.
C24_PreviewFirst80 ==
  \A i \in 1..Len(queuedPreviewStrip) :
    LET t == queuedPromptsForSession[i].inputText
    IN queuedPreviewStrip[i] =
         IF Len(t) > PreviewWidth THEN SubSeq(t, 1, PreviewWidth) \o Dots ELSE t

\* C24: a preview is never wider than 80 characters and is one line (no line
\* breaks, no doubled blanks, no blanks at the ends); a queued text that is one
\* such line already is previewed unchanged when it has at most 80 characters,
\* and as its first 77 characters followed by "..." when it has more.
C24_PreviewWithin80 ==
  \A i \in 1..Len(queuedPreviewStrip) :
    LET t == queuedPromptsForSession[i].inputText
        p == queuedPreviewStrip[i]
    IN /\ Len(p) <= PreviewWidth
       /\ PlainLine(p)
       /\ PlainLine(t) /\ Len(t) <= PreviewWidth => p = t
       /\ PlainLine(t) /\ Len(t) > PreviewWidth =>
            /\ Len(p) = PreviewWidth
            /\ SubSeq(p, 1, PreviewKeep) = SubSeq(t, 1, PreviewKeep)
            /\ SubSeq(p, PreviewKeep + 1, PreviewWidth) = Dots
       /\ Len(queuedPreviewStrip) <= 2

\* the strip shows a text of 81 letters cut to 77 letters and the dots, above a
\* text of exactly 80 letters shown whole
C24_Witness ==
  /\ Len(queuedPreviewStrip) = 2
  /\ queuedPromptsForSession[1].inputText = letters(PreviewWidth + 1)
  /\ queuedPreviewStrip[1] = letters(PreviewKeep) \o Dots
  /\ queuedPromptsForSession[2].inputText = letters(PreviewWidth)
  /\ queuedPreviewStrip[2] = letters(PreviewWidth)

\* the step has created an extmark and a part
CreatedPart == nextExtmark' = nextExtmark + 1 /\ Len(parts') = Len(parts) + 1

\* the step has put text at the end of the draft and created nothing
InsertedVerbatim(text) ==
  /\ promptInput' = promptInput \o text
  /\ parts' = parts
  /\ extmarks' = extmarks
  /\ extmarkToPartIndex' = extmarkToPartIndex

\* pastedContent has at least PasteLines lines or more than PasteChars
\* characters
Large(pastedContent) ==
  \/ Cardinality({ i \in 1..Len(pastedContent) : pastedContent[i] = "\n" })
       >= PasteLines - 1
  \/ Len(pastedContent) >= PasteChars + 1

message(error) ==
  IF error.kind = "RunFailedError"
  THEN << "Command failed with code", error.code >>
  ELSE << "spawn git ENOENT" >>

\* .then((result) => ({ exitCode: result.code, stdout, stderr }))
gitThen(result) ==
  [kind |-> "GitResult", exitCode |-> result.code, stdout |-> result.stdout,
   stderr |-> result.stderr]

\* .catch((error) => ({ exitCode: 1, stdout: Buffer.alloc(0), stderr: message }))
gitCatch(error) ==
  [kind |-> "GitResult", exitCode |-> 1, stdout |-> <<>>,
   stderr |-> << message(error) >>]

\* git calling Process.run without nothrow
gitThrowing ==
  run([cmd |-> << "git" >>, nothrow |-> FALSE, kill |-> <<>>,
       timeout |-> <<>>, abort |-> "none"])

\* git: Process.run(["git", ...args], { cwd, env, stdin: "ignore", nothrow: true })
git ==
  run([cmd |-> << "git" >>, nothrow |-> TRUE, kill |-> <<>>,
       timeout |-> <<>>, abort |-> "none"])

\* the promise of Process.run has settled: then or catch makes git's result
gitSettle ==
  /\ proc.result.kind \in { "resolved", "RunFailedError", "error" }
  /\ proc' = [proc EXCEPT !.result =
                IF proc.result.kind = "resolved" THEN gitThen(proc.result)
                ELSE gitCatch(proc.result)]
  /\ UNCHANGED promptVars

NextGit ==
  \/ git
  \/ \E stream \in { "stdout", "stderr" }, chunk \in { "out", "err" } :
       ChildWrite(stream, chunk)
  \/ \E code \in ExitCodes : ChildExit(code, NoSignal)
  \/ ChildError
  \/ Settle
  \/ gitSettle

SpecGit == InitProcess /\ [][NextGit]_vars

\* the run has settled after the child has ended
RunSettled == proc.state = "exited" /\ proc.result # NoResult

\* C26: Process.run resolves with the exit code and the captured stdout and
\* stderr when the child has ended with code 0, or with any code when nothrow
\* is set; when the child has ended with another code and nothrow is not set
\* it rejects with RunFailedError carrying that code and the captured stderr.
C26_RunOutcome ==
  RunSettled =>
    LET code == IF proc.exitCode # NoCode THEN proc.exitCode ELSE 1
    IN IF code = 0 \/ proc.nothrow
       THEN proc.result = [kind |-> "resolved", code |-> code,
                           stdout |-> proc.stdout, stderr |-> proc.stderr]
       ELSE /\ proc.result.kind = "RunFailedError"
            /\ proc.result.code = code
            /\ proc.result.stderr = proc.stderr

\* a child that wrote to stderr and ended with code 3 makes run reject with
\* RunFailedError, code 3 and that output
C26_Witness ==
  /\ RunSettled
  /\ ~proc.nothrow
  /\ proc.exitCode = 3
  /\ proc.stderr = << "err" >>
  /\ proc.result.kind = "RunFailedError"
  /\ proc.result.code = 3
  /\ proc.result.stderr = << "err" >>

\* the abort signal fires while the child is running
AbortStep ==
  proc.state = "running" /\ proc.abort = "idle" /\ proc'.abort = "aborted"

\* the signals sent so far: the configured one, then SIGKILL from the timer
SentInOrder ==
  /\ Len(proc.signals) <= 2
  /\ Len(proc.signals) >= 1 => proc.signals[1] = killSignal(proc) /\ proc.closed
  /\ Len(proc.signals) = 2 =>
       proc.signals[2] = "SIGKILL" /\ proc.timer = "fired" /\ ms(proc) > 0

\* the safety part of the escalation: the abort sends the configured signal
\* once and arms the timer when the timeout is positive, only the timer adds
\* SIGKILL, and after the exit the listener is gone, the timer is not pending
\* and nothing is sent
Escalation ==
  /\ []SentInOrder
  /\ [][AbortStep =>
          /\ proc'.signals = << killSignal(proc) >>
          /\ proc'.timer = (IF ms(proc) > 0 THEN "armed" ELSE "none")]_vars
  /\ [](proc.state = "exited" => ~proc.listener /\ proc.timer # "armed")
  /\ [][proc.state = "exited" => proc'.signals = proc.signals]_vars
  /\ (proc.timer = "armed" ~> proc.timer = "fired" \/ proc.state = "exited")

\* C27 as claimed: the escalation, and an aborted run eventually settles with
\* a non-zero code.
C27_AbortSettlesNonZero ==
  /\ Escalation
  /\ (proc.closed ~> RunSettled /\ proc.result.code # 0)

\* C27: when the abort signal fires while the child is running, the
\* configured kill signal (default SIGTERM) is sent exactly once, and if the
\* child has not exited when the timeout (default 5000 ms, when > 0) elapses
\* SIGKILL is sent; once the child has exited the abort listener is removed
\* and the pending timer is cancelled, so no signal is sent after exit. With a
\* positive timeout the run eventually settles; its code is 1 when a signal
\* ended the child and the child's own exit code otherwise.
C27_AbortEscalation ==
  /\ Escalation
  /\ (proc.closed /\ ms(proc) > 0 ~> RunSettled)
  /\ [](RunSettled =>
          proc.result.code =
            (IF proc.signalCode # NoSignal THEN 1 ELSE proc.exitCode))

\* the child ignored SIGTERM, was ended by SIGKILL after the timeout, and the
\* run has settled with code 1
C27_Witness ==
  /\ RunSettled
  /\ proc.signals = << "SIGTERM", "SIGKILL" >>
  /\ proc.signalCode = "SIGKILL"
  /\ proc.timer = "fired"
  /\ ~proc.listener
  /\ proc.result.kind = "resolved"
  /\ proc.result.code = 1

\* C28: each queued message is handed to the send call at most once: it is
\* taken from the queue before the call is issued, so no message is both in
\* the queue and in flight, none that was handed over is in the queue again,
\* and none is sent twice, whether its send resolves or rejects.
C28_SentAtMostOnce ==
  /\ \A i, j \in 1..Len(dispatched) :
       dispatched[i].id = dispatched[j].id => i = j
  /\ \A k \in 1..Len(queuedPrompts), i \in 1..Len(dispatched) :
       queuedPrompts[k].id # dispatched[i].id
  /\ \A i \in 1..Len(pending) :
       /\ \E j \in 1..Len(dispatched) : dispatched[j] = pending[i]
       /\ \A k \in 1..Len(queuedPrompts) : queuedPrompts[k].id # pending[i].id
  /\ call.kind = "prompt" /\ call.id # NoID =>
       /\ dispatched # <<>>
       /\ dispatched[Len(dispatched)].id = call.id
       /\ \A k \in 1..Len(queuedPrompts) : queuedPrompts[k].id # call.id

\* two messages were handed over; the send of the second has just been
\* rejected and neither is in the queue
C28_Witness ==
  /\ Len(dispatched) = 2
  /\ pending = <<>>
  /\ queuedPrompts = <<>>
  /\ toast = "Failed to send queued prompt"

\* the queue has grown by one entry
QueuedStep == Len(queuedPrompts') = Len(queuedPrompts) + 1

\* the conditions under which the queue action queues
QueueConditions ==
  /\ sessionID # NoSession
  /\ status # "idle"
  /\ mode = "normal"
  /\ trim(promptInput) # <<>>
  /\ Head(trim(promptInput)) # "/"

\* C29 as claimed: a queue action adds an entry only when a conversation is
\* active, the agent is not idle, the mode is normal and the trimmed text is
\* non-empty and does not start with "/"; in every other case it behaves as a
\* direct submit.
C29_QueueOrSubmit ==
  [][/\ QueuedStep => QueueConditions
     /\ \A disabled, visible \in BOOLEAN, selectedModel \in Models \cup {NoModel},
           agent \in Agents :
          ~QueueConditions
          /\ queueAtEndOfLoopShown(disabled, visible, selectedModel, agent)
          => \E isCommand \in BOOLEAN :
               submitShown(disabled, visible, selectedModel, agent, isCommand)]_vars

\* C29: an entry is added to the queue only when a conversation is active, the
\* agent is not idle, the mode is normal and the trimmed text is non-empty and
\* does not start with "/", so none is added while the agent is idle. In every
\* other case the queue action does what a direct submit does, unless the
\* prompt is disabled or the autocomplete is showing: then it does nothing.
C29_QueuesOnlyWhenBusy ==
  [][/\ QueuedStep => QueueConditions
     /\ \A disabled, visible \in BOOLEAN, selectedModel \in Models \cup {NoModel},
           agent \in Agents :
          ~QueueConditions
          /\ queueAtEndOfLoopShown(disabled, visible, selectedModel, agent)
          => IF disabled \/ visible
             THEN /\ UNCHANGED << promptInput, queuedPrompts, queueGate, creating >>
                  /\ call' = NoCall
             ELSE \E isCommand \in BOOLEAN :
                    submitWith(selectedModel, agent, isCommand)]_vars

\* the queue action was taken with a draft while the agent was idle: the draft
\* was sent at once and nothing is queued
C29_Witness ==
  /\ status = "idle"
  /\ call.kind = "prompt"
  /\ call.id = NoID
  /\ call.inputText = << "a" >>
  /\ queuedPrompts = <<>>
  /\ promptInput = <<>>

\* C30: only the active conversation's queue is drained: while another
\* conversation is active (or none), the messages queued for a conversation
\* stay queued unchanged whatever the status, and none of them is handed to
\* the send call.
C30_OnlyActiveDrained ==
  [][\A s \in Sessions :
       s # sessionID =>
         /\ filter(queuedPrompts', s) = filter(queuedPrompts, s)
         /\ DispatchStep => call'.sessionID # s]_vars

\* the active conversation's only message has been handed over with the agent
\* idle and the gate open, and the message of the other conversation is still
\* queued
C30_Witness ==
  /\ sessionID # NoSession
  /\ status = "idle"
  /\ queueGate = "open"
  /\ Len(dispatched) = 1
  /\ dispatched[1].sessionID = sessionID
  /\ pending = <<>>
  /\ ~sendingQueuedPrompt
  /\ Len(queuedPrompts) = 1
  /\ queuedPrompts[1].sessionID # sessionID

\* a queued send of another conversation than the active one is in flight
ForeignFlight ==
  \E i \in 1..Len(pending) : pending[i].sessionID # sessionID

\* C31: the single-flight flag is shared by all conversations: while a send
\* issued for one conversation is in flight the flag is set, and no queued
\* message of another conversation is handed over, also not after a switch to
\* that conversation with the gate open and its agent idle; the flag is
\* cleared when the send settles.
C31_FlagSharedAcrossSessions ==
  /\ [](pending # <<>> => sendingQueuedPrompt)
  /\ [][/\ ForeignFlight => ~DispatchStep
        /\ Len(pending') < Len(pending) => ~sendingQueuedPrompt']_vars

\* a send for one conversation is in flight; the user has switched to another
\* one whose agent is idle, with the gate open, nothing being edited and a
\* message waiting
C31_Witness ==
  /\ ForeignFlight
  /\ sendingQueuedPrompt
  /\ queueGate = "open"
  /\ status = "idle"
  /\ queuedEditID = NoID
  /\ queuedPromptsForSession # <<>>

\* C32: after the gate has gone from paused to wait_busy, as long as the agent
\* status stays idle the gate stays wait_busy and no queued message is handed
\* over, unless the conversation is switched or an interrupt is confirmed.
C32_WaitBusyHoldsWhileIdle ==
  [][(/\ queueGate = "wait_busy"
      /\ status = "idle"
      /\ status' = "idle"
      /\ sessionID' = sessionID
      /\ ~ConfirmedInterruptStep) =>
       /\ queueGate' = "wait_busy"
       /\ ~DispatchStep]_vars

\* the gate waits for the agent to start while the agent is idle, with a
\* message waiting, no send in flight and nothing being edited
C32_Witness ==
  /\ queueGate = "wait_busy"
  /\ status = "idle"
  /\ queuedPromptsForSession # <<>>
  /\ queuedEditID = NoID
  /\ ~sendingQueuedPrompt
  /\ pending = <<>>
  /\ call = NoCall

\* C33: clearing the draft with the input-clear key or through the prompt's
\* reset leaves the editing marker and the navigator cursor as they are, and
\* while the marker is set no queued message is handed over, also with the
\* gate open and the agent idle.
C33_ClearKeepsMarker ==
  [][/\ (InputClear \/ reset) =>
          /\ queuedEditID' = queuedEditID
          /\ queuedCursor' = queuedCursor
          /\ promptInput' = <<>>
     /\ queuedEditID # NoID => ~DispatchStep]_vars

\* an entry was loaded for editing and the draft was cleared: the marker and
\* the cursor are still set, and with the gate open, the agent idle and no
\* send in flight the entry is not handed over
C33_Witness ==
  /\ queuedEditID # NoID
  /\ queuedCursor # NoCursor
  /\ promptInput = <<>>
  /\ loadedID = NoID
  /\ queueGate = "open"
  /\ status = "idle"
  /\ ~sendingQueuedPrompt
  /\ \E i \in 1..Len(queuedPromptsForSession) :
       queuedPromptsForSession[i].id = queuedEditID

\* C34: the editing marker and the navigator cursor are set and cleared
\* together, and whenever an entry of the active conversation is marked as
\* being edited, the entry at the cursor position of the newest-first list of
\* that conversation is the marked entry.
C34_MarkerAtCursor ==
  /\ queuedEditID = NoID <=> queuedCursor = NoCursor
  /\ (queuedEditID # NoID /\ ~markerStale) =>
       /\ queuedCursor + 1 \in 1..Len(queuedPromptsForSessionNewest)
       /\ queuedPromptsForSessionNewest[queuedCursor + 1].id = queuedEditID

\* of two queued entries the older one is loaded for editing: the cursor
\* stands at the second place of the newest-first list
C34_Witness ==
  /\ Len(queuedPromptsForSession) = 2
  /\ queuedEditID = queuedPromptsForSession[1].id
  /\ queuedCursor = 1

\* C35: committing an in-place edit of a queued entry issues no send call and
\* leaves the gate as it is, a paused gate included; the gate goes from paused
\* to wait_busy only in a step that issues a direct send.
C35_CommitLeavesGate ==
  [][/\ EditCommitStep =>
          /\ call' = NoCall
          /\ queueGate' = queueGate
          /\ pending' = pending
          /\ creating' = creating
          /\ dispatched' = dispatched
     /\ (queueGate = "paused" /\ queueGate' = "wait_busy") =>
          DirectSendStep /\ ~EditCommitStep]_vars

\* an in-place edit has just been committed while the gate is paused
C35_Witness ==
  /\ toast = "Queued message updated"
  /\ queueGate = "paused"
  /\ call = NoCall
  /\ queuedEditID = NoID
  /\ Len(queuedPrompts) >= 1

\* the entry that is loaded for editing, as a one-element list (empty if none)
EditedEntry == SelectSeq(queuedPrompts, LAMBDA item : item.id = queuedEditID)

SendConditions ==
  /\ Quiescent
  /\ sessionID # NoSession
  /\ promptInput # <<>>
  /\ trim(promptInput) \notin ExitWords
  /\ ~ \E c \in LocalCommands : startsWith(trim(promptInput), c)
  /\ editingQueuedPrompt = <<>>

\* C37: a direct submit leaves the queue as it is (no entry added, removed,
\* edited or moved) and touches neither the in-flight send nor its flag, and
\* submit can issue the send of a sendable draft in every state, whatever the
\* gate, the flight flag and the queue are; the call carries the draft.
C37_DirectSubmitBypassesQueue ==
  /\ [](SendConditions => ENABLED (Submit /\ DirectSendStep))
  /\ [][DirectSendStep =>
          /\ queuedPrompts' = queuedPrompts
          /\ origin' = origin
          /\ pending' = pending
          /\ dispatched' = dispatched
          /\ sendingQueuedPrompt' = sendingQueuedPrompt
          /\ (creating' = creating => call'.inputText = resolvePromptInput.inputText)
     ]_vars

\* a direct send has just gone out while a queued send is in flight, another
\* entry is waiting and the gate is not open
C37_Witness ==
  /\ call.kind = "prompt"
  /\ call.id = NoID
  /\ sendingQueuedPrompt
  /\ pending # <<>>
  /\ queuedPromptsForSession # <<>>
  /\ queueGate = "wait_busy"

\* C38: git never rejects. Whatever Process.run settles with, git settles with
\* a result: when the child could not be spawned (or run failed otherwise) the
\* result has exitCode 1, empty stdout and the error message as stderr; when
\* the child has ended, exitCode is its exit code, zero or not, with the
\* captured stdout and stderr; and run never rejects with RunFailedError.
C38_GitNeverRejects ==
  /\ proc.result.kind # "RunFailedError"
  /\ proc.result.kind = "GitResult" =>
       IF proc.state = "error"
       THEN proc.result = [kind |-> "GitResult", exitCode |-> 1,
                           stdout |-> <<>>,
                           stderr |-> << << "spawn git ENOENT" >> >>]
       ELSE /\ proc.state = "exited"
            /\ proc.result = [kind |-> "GitResult", exitCode |-> proc.exitCode,
                              stdout |-> proc.stdout, stderr |-> proc.stderr]

\* git has resolved with the non-zero exit code of a child that wrote to stderr
C38_Witness ==
  /\ proc.state = "exited"
  /\ proc.exitCode = 3
  /\ proc.result = [kind |-> "GitResult", exitCode |-> 3, stdout |-> <<>>,
                    stderr |-> << "err" >>]

====
